---- MODULE Spec2Model ----
(***************************************************************************)
(* S3 key-value store driver (tensorstore/kvstore/s3/s3_key_value_store.cc) *)
(* The per-operation tasks ReadTask, WriteTask, DeleteTask and ListTask as  *)
(* a state machine: one action per handler (Start, Admit, Retry,            *)
(* OnPeekResponse, OnResponse, IssueRequest, ...).  The HTTP transport, the *)
(* credential provider, the rate limiter and the admission queue are the    *)
(* environment: their answers are drawn from small sets.                    *)
(***************************************************************************)
EXTENDS Integers, Sequences, FiniteSets, TLC

\* ---------------------------------------------------------------- bounds
\* largest value of the configured retries->max_retries explored
MaxRetriesBound == 1
\* largest number of truncated pages the server returns in one listing
MaxPages == 1

\* ---------------------------------------------------------------- data
TaskIds == {1}

\* StorageGeneration: Unknown, NoValue, or a concrete ETag
Etags == {"g1", "g2"}
Gens == {"Unknown", "NoValue"} \cup Etags

IsUnknown(g) == g = "Unknown"
IsNoValue(g) == g = "NoValue"

\* HTTP status codes the transport may deliver
HttpCodes == {200, 204, 206, 304, 403, 404, 408, 412, 500, 503}

\* Result<HttpResponse>: an HTTP response, or a transport failure status
HttpResponses ==
    [ok : {TRUE}, code : HttpCodes, etag : Etags \cup {"missing"}, st : {"Ok"}]
TransportFailures ==
    [ok : {FALSE}, code : {0}, etag : {"missing"}, st : {"Unavailable", "Unknown"}]
Responses == HttpResponses \cup TransportFailures
\* ListTask reads the status and the payload only
ListResponses == {r \in Responses : r.etag = "missing" /\ r.code \in {0, 200, 403, 503}}

\* HttpResponseCodeToStatus (internal/http/http_response.cc)
HttpResponseCodeToStatus(code) ==
    IF code \in {200, 201, 202, 204, 206} THEN "Ok"
    ELSE IF code \in {400, 411} THEN "InvalidArgument"
    ELSE IF code \in {401, 403} THEN "PermissionDenied"
    ELSE IF code \in {404, 410} THEN "NotFound"
    ELSE IF code \in {302, 303, 304, 307, 412, 413} THEN "FailedPrecondition"
    ELSE IF code = 416 THEN "OutOfRange"
    ELSE IF code \in {308, 408, 409, 429, 500, 502, 503, 504} THEN "Unavailable"
    ELSE IF code < 300 THEN "Ok"
    ELSE IF code < 400 THEN "FailedPrecondition"
    ELSE IF code < 500 THEN "InvalidArgument"
    ELSE "Unavailable"

\* internal_storage_gcs::IsRetriable
IsRetriable(status) == status \in {"Unavailable", "DeadlineExceeded"}

\* AddGenerationHeader: the header value sent, or "omitted"
AddGenerationHeader(gen) ==
    IF IsUnknown(gen) THEN "omitted"
    ELSE IF IsNoValue(gen) THEN "kEmptyEtag"
    ELSE gen

\* A reading of absl::Now(): identified by the place that read the clock and
\* the number of the request it was read for.  Two readings are equal only
\* when they are the same reading.
TimeAt(site, n) == [site |-> site, n |-> n]
NoTime == [site |-> "-", n |-> 0]

\* The bytes [lo, hi) of the response payload
Bytes(lo, hi) == [lo |-> lo, hi |-> hi]
NoBytes == Bytes(0, 0)

\* What a promise holds
NoResult ==
    [tag |-> "none", generation |-> "-", state |-> "-", time |-> NoTime,
     status |-> "-", wraps |-> "-", value |-> NoBytes]
GenResult(g, tm) ==
    [tag |-> "value", generation |-> g, state |-> "-", time |-> tm,
     status |-> "Ok", wraps |-> "-", value |-> NoBytes]
ReadResult(state, g, tm, bytes) ==
    [tag |-> "value", generation |-> g, state |-> state, time |-> tm,
     status |-> "Ok", wraps |-> "-", value |-> bytes]
ErrorResult(status) ==
    [tag |-> "error", generation |-> "-", state |-> "-", time |-> NoTime,
     status |-> status, wraps |-> "-", value |-> NoBytes]
\* MaybeAnnotateStatus(status, "All N retry attempts failed", kAborted)
AbortedResult(status) ==
    [tag |-> "error", generation |-> "-", state |-> "-", time |-> NoTime,
     status |-> "Aborted", wraps |-> status, value |-> NoBytes]

\* The response a handler classified: the handler, the response's code and
\* the status the handler made of it
NoResponse ==
    [handler |-> "none", ok |-> TRUE, code |-> 0, status |-> "-", etag |-> "missing",
     size |-> 0, cr |-> -1]
Classified(handler, resp, status) ==
    [handler |-> handler, ok |-> resp.ok, code |-> resp.code, status |-> status,
     etag |-> "missing", size |-> 0, cr |-> -1]
\* A PUT response WriteTask::FinishResponse reads: also the ETag header
ClassifiedWrite(resp, status) ==
    IF status = "Ok"
    THEN [Classified("OnResponse", resp, status) EXCEPT !.etag = resp.etag]
    ELSE Classified("OnResponse", resp, status)
\* A GET response whose payload ReadTask::FinishResponse reads: also the
\* ETag header, the payload's length and the first byte position of the
\* Content-Range header
ClassifiedRead(resp, status, size, cr) ==
    IF status = "Ok" /\ resp.code \notin {204, 404, 412, 304}
    THEN [Classified("OnResponse", resp, status) EXCEPT
              !.etag = resp.etag, !.size = size, !.cr = cr]
    ELSE Classified("OnResponse", resp, status)

\* An issued HTTP request
NoRequest ==
    [method |-> "none", if_match |-> "omitted", if_none_match |-> "omitted",
     creds |-> "empty", prefix |-> <<>>, token |-> "", range |-> "omitted"]
Request(method, if_match, if_none_match, creds) ==
    [method |-> method, if_match |-> if_match, if_none_match |-> if_none_match,
     creds |-> creds, prefix |-> <<>>, token |-> "", range |-> "omitted"]
ReadRequest(if_match, if_none_match, creds, rng) ==
    [method |-> "GET", if_match |-> if_match, if_none_match |-> if_none_match,
     creds |-> creds, prefix |-> <<>>, token |-> "", range |-> rng]
ListRequest(creds, prefix, token) ==
    [method |-> "GET", if_match |-> "omitted", if_none_match |-> "omitted",
     creds |-> creds, prefix |-> prefix, token |-> token, range |-> "omitted"]

\* ---------------------------------------------------------------- state
VARIABLES
    max_retries,          \* spec_.retries->max_retries
    credential_provider_, \* the driver's cached provider: unset, null, provider
    s3_retries,           \* metric counter /tensorstore/kvstore/s3/retries
    latency_obs,          \* observations of s3_{read,write}_latency_ms
    kind,                 \* per task: none, read, write, delete, list
    pc,                   \* per task: where the task is in its lifecycle
    if_equal,             \* options.if_equal
    if_not_equal,         \* options.if_not_equal (Read)
    byte_range,           \* options.byte_range (Read)
    needed,               \* promise.result_needed()
    result,               \* what the promise holds
    attempt_,             \* the task's retry counter
    start_time_,          \* the task's start_time_
    credentials_,         \* WriteTask / DeleteTask credentials_ member
    req,                  \* the request in flight (or last issued)
    last_resp,            \* the response the task's last handler classified
    nhead,                \* HEAD requests the task has issued
    nmain,                \* main requests issued (List: for the current page)
    range,                \* ListTask options_.range and strip_prefix_length
    orig_min,             \* the caller's range.inclusive_min at the call
    continuation_token_,  \* ListTask continuation_token_
    cancelled_,           \* ListTask cancelled_
    page,                 \* the list payload OnResponseImpl is walking
    k,                    \* the loop index of OnResponseImpl
    npages,               \* truncated pages processed by the listing
    events,               \* receiver calls, in order
    last_value,           \* the last key passed to set_value: as the server
                          \* named it and as the receiver got it
    store,                \* the bucket: the versions of the object at the key
                          \* the Write tasks address (its ETag, or "absent"),
                          \* oldest first
    call_order,           \* the Write calls made, in order
    overlapped,           \* a Write was called while another was running
    promise_refs,         \* DeleteRange: references to the promise
    promise_result,       \* DeleteRange: the promise's (deferred) result
    future_ready,         \* DeleteRange: the future is ready
    linked,               \* DeleteRange: the Delete futures LinkError holds
    maybe_credentials,    \* what GetCredentials gave the task's last attempt
    rate_admit,           \* the rate limiter the call queued the task in
    rate_finish,          \* the rate limiter <Task>::Start called Finish on
    nadmit,               \* calls of <Task>::Admit by the admission queue
    nanswered,            \* responses handled (List: for the current page)
    nfinish,              \* calls of admission_queue().Finish by ~<Task>
    gc,                   \* per thread: where it is in GetCredentials and
                          \* the provider it has constructed
    constructed,          \* calls of GetS3CredentialProvider
    race                  \* credential_provider_ was accessed while written

driverVars == <<max_retries, credential_provider_>>
metricVars == <<s3_retries, latency_obs>>
optVars == <<kind, if_equal, if_not_equal, byte_range>>
listVars == <<range, orig_min, continuation_token_, cancelled_, page, k, npages,
              events, last_value>>
bucketVars == <<store, call_order, overlapped>>
promiseVars == <<promise_refs, promise_result, future_ready, linked>>
hookVars == <<rate_admit, rate_finish, nadmit, nanswered, nfinish>>
raceVars == <<gc, constructed, race>>
vars == <<max_retries, credential_provider_, s3_retries, latency_obs, kind, pc,
          if_equal, if_not_equal, byte_range, needed, result, attempt_, start_time_,
          credentials_, req, last_resp, nhead, nmain, range, orig_min, continuation_token_,
          cancelled_, page, k, npages, events, last_value, store, call_order,
          overlapped, promise_refs, promise_result, future_ready, linked,
          maybe_credentials, rate_admit, rate_finish, nadmit, nanswered, nfinish,
          gc, constructed, race>>


\* ---------------------------------------------------------------- keys
\* Object names: byte strings, here over the bytes 1 < 2
Keys == {<<1>>, <<1, 1>>, <<1, 2>>, <<2>>}
NoKey == <<>>

Min(a, b) == IF a < b THEN a ELSE b

\* std::string operator<
RECURSIVE StrLess(_, _)
StrLess(a, b) ==
    IF b = <<>> THEN FALSE
    ELSE IF a = <<>> THEN TRUE
    ELSE IF Head(a) # Head(b) THEN Head(a) < Head(b)
    ELSE StrLess(Tail(a), Tail(b))

\* std::string::substr(0, n) and std::string::substr(n)
SubstrTo(s, n) == SubSeq(s, 1, Min(n, Len(s)))
SubstrFrom(s, n) == SubSeq(s, n + 1, Len(s))

\* KeyRange::empty (kvstore/key_range.h); an empty exclusive_max is +infinity
RangeEmpty(r) ==
    r.exclusive_max # <<>> /\ ~StrLess(r.inclusive_min, r.exclusive_max)

\* tensorstore::Contains(KeyRange, key)
Contains(r, key) ==
    /\ ~StrLess(key, r.inclusive_min)
    /\ (r.exclusive_max = <<>> \/ StrLess(key, r.exclusive_max))

KeyRange(lo, hi, strip) ==
    [inclusive_min |-> lo, exclusive_max |-> hi, strip_prefix_length |-> strip]
\* The ListOptions explored: everything, an open and a closed interval with
\* and without a prefix to strip, a prefix shorter than the lower bound,
\* and an empty interval
KeyRanges ==
    {KeyRange(NoKey, NoKey, 0), KeyRange(<<1>>, <<2>>, 1), KeyRange(<<1, 2>>, NoKey, 0),
     KeyRange(<<1, 2>>, <<2>>, 1), KeyRange(<<1, 2>>, <<2>>, 2),
     KeyRange(<<2>>, <<1>>, 0)}
NoRange == KeyRange(NoKey, NoKey, 0)

\* The part of a ListObjectsV2 payload OnResponseImpl reads.  keycount is
\* the <KeyCount> text (-1: not a number), entries the <Key> of each
\* <Contents> block that is present.
\* The server names the n-th page's NextContinuationToken TokenFor(n)
Tokens == {"X", "Y", "Z"}
TokenFor(n) == IF n = 1 THEN "X" ELSE IF n = 2 THEN "Y" ELSE "Z"
EntryLists ==
    {<<>>, << <<1, 1>> >>, << <<1, 2>> >>, << <<2>> >>,
     << <<1, 1>>, <<1, 2>> >>, << <<1, 2>>, <<2>> >>}
PageBodies ==
    {b \in [open : BOOLEAN, keycount : {-1, 0, 1, 2}, entries : EntryLists,
            truncated : {"true", "false", "missing"},
            token : Tokens \cup {"missing"}] :
        /\ (~b.open => b.keycount = 0 /\ b.entries = <<>> /\ b.truncated = "missing")
        /\ (b.keycount = -1 => b.entries = <<>> /\ b.truncated = "missing")
        /\ (b.truncated # "true" => b.token = "missing")
        /\ (b.keycount >= 0 => b.keycount <= Len(b.entries) + 1)
        /\ (b.keycount > Len(b.entries) => b.truncated = "missing")}
NoValue == [key |-> NoKey, value |-> NoKey]
NoPage ==
    [open |-> FALSE, keycount |-> 0, entries |-> <<>>, truncated |-> "missing",
     token |-> "missing"]

\* OptionalByteRangeRequest (kvstore/byte_range.h): exclusive_max = -1 is
\* "to the end", a negative inclusive_min a suffix length
ByteRange(lo, hi) == [inclusive_min |-> lo, exclusive_max |-> hi]
FullRange == ByteRange(0, -1)
ByteRanges == {FullRange, ByteRange(1, -1), ByteRange(0, 2), ByteRange(1, 2),
               ByteRange(1, 3), ByteRange(-1, -1), ByteRange(-2, -1)}
PayloadSizes == {0, 1, 2, 3}
\* The first byte position of a Content-Range header, or -1 when the
\* header does not parse
ContentRanges == {-1, 0, 1, 2}

\* OptionalByteRangeRequest::size
RangeSize(br) ==
    IF br.inclusive_min < 0 THEN 0 - br.inclusive_min
    ELSE IF br.exclusive_max # -1 THEN br.exclusive_max - br.inclusive_min
    ELSE -1

\* OptionalByteRangeRequest::Validate(size): the byte range of a value of
\* that size, or ok = FALSE when the request does not fit
Validate(br, size) ==
    IF br.inclusive_min < 0
    THEN IF 0 - br.inclusive_min > size THEN [ok |-> FALSE, lo |-> 0, hi |-> 0]
         ELSE [ok |-> TRUE, lo |-> size + br.inclusive_min, hi |-> size]
    ELSE IF br.exclusive_max = -1
    THEN IF br.inclusive_min > size THEN [ok |-> FALSE, lo |-> 0, hi |-> 0]
         ELSE [ok |-> TRUE, lo |-> br.inclusive_min, hi |-> size]
    ELSE IF br.exclusive_max > size THEN [ok |-> FALSE, lo |-> 0, hi |-> 0]
    ELSE [ok |-> TRUE, lo |-> br.inclusive_min, hi |-> br.exclusive_max]

\* ---------------------------------------------------------------- driver
\* S3KeyValueStore::GetCredentials.  ctor is what GetS3CredentialProvider
\* answers (read only while nothing is cached), get what the provider's
\* GetCredentials answers.  Yields the cache afterwards and the result:
\* "creds", "nullopt" (anonymous) or "error".
GetCredentials(cache, ctor, get) ==
    LET cache1 == IF cache # "unset" THEN cache
                  ELSE IF ctor = "notfound" THEN "null"
                  ELSE IF ctor = "error" THEN "unset"
                  ELSE "provider"
    IN  IF cache1 = "unset" THEN [cache |-> cache1, res |-> "error"]
        ELSE IF cache1 = "null" THEN [cache |-> cache1, res |-> "nullopt"]
        ELSE IF get = "notfound" THEN [cache |-> cache1, res |-> "nullopt"]
        ELSE IF get = "error" THEN [cache |-> cache1, res |-> "error"]
        ELSE [cache |-> cache1, res |-> "creds"]

CredAnswers == {"ok", "notfound", "error"}

\* Increment that leaves the counter alone
IncrementLost(n) == n

\* s3_retries.Increment() in BackoffForAttemptAsync, when a retry is scheduled
Increment(n) == n + 1

\* BackoffForAttemptAsync comparing with > instead of >=
BackoffOneTooMany(attempt) ==
    IF attempt > max_retries THEN "Aborted" ELSE "Ok"

\* S3KeyValueStore::BackoffForAttemptAsync: "Ok" when Retry was scheduled,
\* "Aborted" when the retries are used up
BackoffForAttemptAsync(attempt) ==
    IF attempt >= max_retries THEN "Aborted" ELSE "Ok"

\* A task that gives its admission slot back also when it starts to wait
\* for the backoff timer
DestructorOnBackoff(t) ==
    nfinish' = [nfinish EXCEPT ![t] =
                  IF pc'[t] \in {"done", "backoff"} /\ pc[t] # pc'[t] THEN @ + 1 ELSE @]

\* ~<Task>(): the step that ends the task destroys it, and the destructor
\* calls admission_queue().Finish(this)
Destructor(t) ==
    nfinish' = [nfinish EXCEPT ![t] = IF pc'[t] = "done" /\ pc[t] # "done" THEN @ + 1 ELSE @]

\* A thread that is not in GetCredentials
NoCall == [at |-> "out", made |-> "none", res |-> "none"]

Init ==
    /\ max_retries \in 0..MaxRetriesBound
    /\ credential_provider_ = "unset"
    /\ s3_retries = 0
    /\ latency_obs = 0
    /\ kind = [t \in TaskIds |-> "none"]
    /\ pc = [t \in TaskIds |-> "idle"]
    /\ if_equal = [t \in TaskIds |-> "Unknown"]
    /\ if_not_equal = [t \in TaskIds |-> "Unknown"]
    /\ byte_range = [t \in TaskIds |-> FullRange]
    /\ needed = [t \in TaskIds |-> TRUE]
    /\ result = [t \in TaskIds |-> NoResult]
    /\ attempt_ = [t \in TaskIds |-> 0]
    /\ start_time_ = [t \in TaskIds |-> NoTime]
    /\ credentials_ = [t \in TaskIds |-> "empty"]
    /\ req = [t \in TaskIds |-> NoRequest]
    /\ last_resp = [t \in TaskIds |-> NoResponse]
    /\ nhead = [t \in TaskIds |-> 0]
    /\ nmain = [t \in TaskIds |-> 0]
    /\ range = [t \in TaskIds |-> NoRange]
    /\ orig_min = [t \in TaskIds |-> NoKey]
    /\ continuation_token_ = [t \in TaskIds |-> ""]
    /\ cancelled_ = [t \in TaskIds |-> FALSE]
    /\ page = [t \in TaskIds |-> NoPage]
    /\ k = [t \in TaskIds |-> 0]
    /\ npages = [t \in TaskIds |-> 0]
    /\ events = [t \in TaskIds |-> <<>>]
    /\ last_value = [t \in TaskIds |-> NoValue]
    /\ store = <<"absent">>
    /\ call_order = <<>>
    /\ overlapped = FALSE
    /\ promise_refs = 0
    /\ promise_result = "Ok"
    /\ future_ready = FALSE
    /\ linked = {}
    /\ maybe_credentials = [t \in TaskIds |-> "none"]
    /\ rate_admit = [t \in TaskIds |-> "none"]
    /\ rate_finish = [t \in TaskIds |-> "none"]
    /\ nadmit = [t \in TaskIds |-> 0]
    /\ nanswered = [t \in TaskIds |-> 0]
    /\ nfinish = [t \in TaskIds |-> 0]
    /\ gc = [t \in TaskIds |-> NoCall]
    /\ constructed = 0
    /\ race = FALSE

\* ---------------------------------------------------------------- calls
\* S3KeyValueStore::Write: an invalid key or generation is refused at once;
\* a value makes a WriteTask, no value a DeleteTask, queued at the write
\* rate limiter.
Write(t, ie, has_value, valid) ==
    /\ pc[t] = "idle"
    /\ IF ~valid
       THEN /\ result' = [result EXCEPT ![t] = ErrorResult("InvalidArgument")]
            /\ pc' = [pc EXCEPT ![t] = "refused"]
            /\ UNCHANGED <<kind, if_equal>>
       ELSE /\ kind' = [kind EXCEPT ![t] = IF has_value THEN "write" ELSE "delete"]
            /\ if_equal' = [if_equal EXCEPT ![t] = ie]
            /\ pc' = [pc EXCEPT ![t] = "rate_wait"]
            /\ UNCHANGED result
    /\ UNCHANGED <<driverVars, metricVars, if_not_equal, byte_range, needed,
                   attempt_, start_time_, credentials_, req, nhead, nmain, listVars>>
    /\ rate_admit' = [rate_admit EXCEPT ![t] = IF valid THEN "write" ELSE @]
    /\ UNCHANGED <<rate_finish, nadmit, nanswered, nfinish, maybe_credentials, raceVars>>
    /\ UNCHANGED last_resp

\* The task of a listing
ListId == 1

\* S3KeyValueStore::DeleteRange with an empty range: a ready future
DeleteRangeEmpty ==
    /\ pc[ListId] = "idle"
    /\ pc' = [pc EXCEPT ![ListId] = "refused"]
    /\ future_ready' = TRUE
    /\ UNCHANGED <<driverVars, metricVars, optVars, needed, result, attempt_,
                   start_time_, credentials_, req, last_resp, nhead, nmain, listVars,
                   bucketVars, promise_refs, promise_result, linked, hookVars,
                   maybe_credentials, raceVars>>

\* ListImpl without the test for an empty range: every listing is queued
ListImplAlwaysQueues(t, r) ==
    /\ pc[t] = "idle"
    /\ kind' = [kind EXCEPT ![t] = "list"]
    /\ range' = [range EXCEPT ![t] = r]
    /\ orig_min' = [orig_min EXCEPT ![t] = r.inclusive_min]
    /\ IF FALSE
       THEN /\ events' = [events EXCEPT ![t] = <<"starting", "done", "stopping">>]
            /\ pc' = [pc EXCEPT ![t] = "refused"]
       ELSE /\ pc' = [pc EXCEPT ![t] = "rate_wait"]
            /\ UNCHANGED events
    /\ UNCHANGED <<driverVars, metricVars, if_equal, if_not_equal, byte_range,
                   needed, result, attempt_, start_time_, credentials_, req, nhead,
                   nmain, continuation_token_, cancelled_, page, k, npages, last_value>>
    /\ rate_admit' = [rate_admit EXCEPT ![t] = "read"]
    /\ UNCHANGED <<rate_finish, nadmit, nanswered, nfinish, maybe_credentials, raceVars>>
    /\ UNCHANGED last_resp

\* S3KeyValueStore::ListImpl: an empty range is answered at once
ListImpl(t, r) ==
    /\ pc[t] = "idle"
    /\ kind' = [kind EXCEPT ![t] = "list"]
    /\ range' = [range EXCEPT ![t] = r]
    /\ orig_min' = [orig_min EXCEPT ![t] = r.inclusive_min]
    /\ IF RangeEmpty(r)
       THEN /\ events' = [events EXCEPT ![t] = <<"starting", "done", "stopping">>]
            /\ pc' = [pc EXCEPT ![t] = "refused"]
       ELSE /\ pc' = [pc EXCEPT ![t] = "rate_wait"]
            /\ UNCHANGED events
    /\ UNCHANGED <<driverVars, metricVars, if_equal, if_not_equal, byte_range,
                   needed, result, attempt_, start_time_, credentials_, req, nhead,
                   nmain, continuation_token_, cancelled_, page, k, npages, last_value>>
    /\ rate_admit' = [rate_admit EXCEPT ![t] = IF RangeEmpty(r) THEN @ ELSE "read"]
    /\ UNCHANGED <<rate_finish, nadmit, nanswered, nfinish, maybe_credentials, raceVars>>
    /\ UNCHANGED last_resp

\* Start calling Finish on the write rate limiter for every task
StartWriteLimiter(t) ==
    /\ pc[t] = "rate_wait"
    /\ pc' = [pc EXCEPT ![t] = "admit_wait"]
    /\ UNCHANGED <<driverVars, metricVars, optVars, needed, result, attempt_,
                   start_time_, credentials_, req, nhead, nmain, listVars>>
    /\ rate_finish' = [rate_finish EXCEPT ![t] = "write"]
    /\ UNCHANGED <<rate_admit, nadmit, nanswered, nfinish, maybe_credentials, raceVars>>
    /\ UNCHANGED last_resp

\* <Task>::Start: the rate limiter lets the task go and the task joins the
\* admission queue
Start(t) ==
    /\ pc[t] = "rate_wait"
    /\ pc' = [pc EXCEPT ![t] = "admit_wait"]
    /\ UNCHANGED <<driverVars, metricVars, optVars, needed, result, attempt_,
                   start_time_, credentials_, req, nhead, nmain, listVars>>
    /\ rate_finish' = [rate_finish EXCEPT ![t] =
                         IF kind[t] \in {"read", "list"} THEN "read" ELSE "write"]
    /\ UNCHANGED <<rate_admit, nadmit, nanswered, nfinish, maybe_credentials, raceVars>>
    /\ UNCHANGED last_resp

\* <Task>::Admit: the admission queue hands the task to the executor;
\* ListTask::Admit first calls set_starting
Admit(t) ==
    /\ pc[t] = "admit_wait"
    /\ pc' = [pc EXCEPT ![t] = "ready"]
    /\ events' = [events EXCEPT ![t] =
                    IF kind[t] = "list" THEN Append(@, "starting") ELSE @]
    /\ UNCHANGED <<driverVars, metricVars, optVars, needed, result, attempt_,
                   start_time_, credentials_, req, nhead, nmain, range, orig_min,
                   continuation_token_, cancelled_, page, k, npages, last_value>>
    /\ nadmit' = [nadmit EXCEPT ![t] = @ + 1]
    /\ UNCHANGED <<rate_admit, rate_finish, nanswered, nfinish, maybe_credentials, raceVars>>
    /\ UNCHANGED last_resp

\* The caller drops the future: the result is no longer needed
Abandon(t) ==
    /\ kind[t] \in {"read", "write", "delete"}
    /\ pc[t] \in {"rate_wait", "admit_wait", "ready", "head", "main", "backoff"}
    /\ needed[t]
    /\ needed' = [needed EXCEPT ![t] = FALSE]
    /\ UNCHANGED <<driverVars, metricVars, optVars, pc, result, attempt_,
                   start_time_, credentials_, req, nhead, nmain, listVars>>
    /\ UNCHANGED <<rate_admit, rate_finish, nadmit, nanswered, nfinish, maybe_credentials, raceVars>>
    /\ UNCHANGED last_resp

\* The receiver calls the cancel callback set_starting gave it
Cancel(t) ==
    /\ kind[t] = "list"
    /\ pc[t] \in {"ready", "main", "keys", "backoff"}
    /\ ~cancelled_[t]
    /\ cancelled_' = [cancelled_ EXCEPT ![t] = TRUE]
    /\ UNCHANGED <<driverVars, metricVars, optVars, pc, needed, result, attempt_,
                   start_time_, credentials_, req, nhead, nmain, range, orig_min,
                   continuation_token_, page, k, npages, events, last_value>>
    /\ UNCHANGED <<rate_admit, rate_finish, nadmit, nanswered, nfinish, maybe_credentials, raceVars>>
    /\ UNCHANGED last_resp


\* StorageGenerationFromHeaders (s3_metadata): the ETag header as the
\* generation, or an error when the response has none
StorageGenerationFromHeaders(resp, tm) ==
    IF resp.etag = "missing" THEN ErrorResult("NotFound")
    ELSE GenResult(resp.etag, tm)

\* The status OnResponse of WriteTask and ListTask classifies
ResponseStatus(resp) ==
    IF ~resp.ok THEN resp.st ELSE HttpResponseCodeToStatus(resp.code)

\* TaskEnds that drops the task without giving the promise a result
TaskEndsSilent(t, r) ==
    /\ pc' = [pc EXCEPT ![t] = "done"]
    /\ UNCHANGED result

\* TaskEnds with a callback that still holds the task: it is never destroyed
TaskEndsHeld(t, r) ==
    /\ pc' = [pc EXCEPT ![t] = "held"]
    /\ result' = [result EXCEPT ![t] = r]

\* The task has published its result or given up: no callback holds it
TaskEnds(t, r) ==
    /\ pc' = [pc EXCEPT ![t] = "done"]
    /\ result' = [result EXCEPT ![t] = r]

\* ---------------------------------------------------------------- WriteTask
\* DoPut that does not read the clock: start_time_ keeps its old value
DoPutStaleTime(t, creds) ==
    /\ req' = [req EXCEPT ![t] = Request("PUT", "omitted", "omitted", creds)]
    /\ nmain' = [nmain EXCEPT ![t] = @ + 1]
    /\ pc' = [pc EXCEPT ![t] = "main"]
    /\ UNCHANGED <<result, start_time_>>

\* DoPut sending the generation as If-Match, as a conditional PUT would
DoPutWithIfMatch(t, creds) ==
    /\ start_time_' = [start_time_ EXCEPT ![t] = TimeAt("DoPut", nmain[t] + 1)]
    /\ req' = [req EXCEPT ![t] =
                Request("PUT", AddGenerationHeader(if_equal[t]), "omitted", creds)]
    /\ nmain' = [nmain EXCEPT ![t] = @ + 1]
    /\ pc' = [pc EXCEPT ![t] = "main"]
    /\ UNCHANGED result

\* DoPut that hands the PUT to the transport twice
DoPutTwice(t, creds) ==
    /\ start_time_' = [start_time_ EXCEPT ![t] = TimeAt("DoPut", nmain[t] + 1)]
    /\ req' = [req EXCEPT ![t] = Request("PUT", "omitted", "omitted", creds)]
    /\ nmain' = [nmain EXCEPT ![t] = @ + 2]
    /\ pc' = [pc EXCEPT ![t] = "main"]
    /\ UNCHANGED result

\* WriteTask::DoPut
DoPut(t, creds) ==
    /\ start_time_' = [start_time_ EXCEPT ![t] = TimeAt("DoPut", nmain[t] + 1)]
    /\ req' = [req EXCEPT ![t] = Request("PUT", "omitted", "omitted", creds)]
    /\ nmain' = [nmain EXCEPT ![t] = @ + 1]
    /\ pc' = [pc EXCEPT ![t] = "main"]
    /\ UNCHANGED result

\* Retry that goes straight to the PUT when it is run by the backoff timer
WriteRetrySkipsPeek(t, ctor, get) ==
    /\ kind[t] = "write"
    /\ pc[t] \in {"ready", "backoff"}
    /\ IF ~needed[t]
       THEN /\ TaskEnds(t, result[t])
            /\ UNCHANGED <<credential_provider_, credentials_, start_time_, req,
                           nhead, nmain>>
       ELSE LET c == GetCredentials(credential_provider_, ctor, get)
            IN  /\ credential_provider_' = c.cache
                /\ IF c.res = "error"
                   THEN /\ TaskEnds(t, ErrorResult("CredentialError"))
                        /\ UNCHANGED <<credentials_, start_time_, req, nhead, nmain>>
                   ELSE /\ credentials_' = [credentials_ EXCEPT ![t] =
                                              IF c.res = "creds" THEN "creds" ELSE @]
                        /\ IF IsUnknown(if_equal[t]) \/ pc[t] = "backoff"
                           THEN DoPut(t, credentials_'[t]) /\ UNCHANGED nhead
                           ELSE /\ req' = [req EXCEPT ![t] =
                                     Request("HEAD", AddGenerationHeader(if_equal[t]),
                                             "omitted", credentials_'[t])]
                                /\ nhead' = [nhead EXCEPT ![t] = @ + 1]
                                /\ pc' = [pc EXCEPT ![t] = "head"]
                                /\ UNCHANGED <<result, start_time_, nmain>>
    /\ UNCHANGED <<max_retries, metricVars, optVars, needed, attempt_, listVars>>
    /\ maybe_credentials' = [maybe_credentials EXCEPT ![t] =
           IF ~needed[t] THEN @
           ELSE GetCredentials(credential_provider_, ctor, get).res]
    /\ Destructor(t)
    /\ UNCHANGED <<rate_admit, rate_finish, nadmit, nanswered, raceVars>>
    /\ last_resp' = [last_resp EXCEPT ![t] = NoResponse]

\* WriteTask::Retry
WriteRetry(t, ctor, get) ==
    /\ kind[t] = "write"
    /\ pc[t] \in {"ready", "backoff"}
    /\ IF ~needed[t]
       THEN /\ TaskEnds(t, result[t])
            /\ UNCHANGED <<credential_provider_, credentials_, start_time_, req,
                           nhead, nmain>>
       ELSE LET c == GetCredentials(credential_provider_, ctor, get)
            IN  /\ credential_provider_' = c.cache
                /\ IF c.res = "error"
                   THEN /\ TaskEnds(t, ErrorResult("CredentialError"))
                        /\ UNCHANGED <<credentials_, start_time_, req, nhead, nmain>>
                   ELSE /\ credentials_' = [credentials_ EXCEPT ![t] =
                                              IF c.res = "creds" THEN "creds" ELSE @]
                        /\ IF IsUnknown(if_equal[t])
                           THEN DoPut(t, credentials_'[t]) /\ UNCHANGED nhead
                           ELSE /\ req' = [req EXCEPT ![t] =
                                     Request("HEAD", AddGenerationHeader(if_equal[t]),
                                             "omitted", credentials_'[t])]
                                /\ nhead' = [nhead EXCEPT ![t] = @ + 1]
                                /\ pc' = [pc EXCEPT ![t] = "head"]
                                /\ UNCHANGED <<result, start_time_, nmain>>
    /\ UNCHANGED <<max_retries, metricVars, optVars, needed, attempt_, listVars>>
    /\ maybe_credentials' = [maybe_credentials EXCEPT ![t] =
           IF ~needed[t] THEN @
           ELSE GetCredentials(credential_provider_, ctor, get).res]
    /\ Destructor(t)
    /\ UNCHANGED <<rate_admit, rate_finish, nadmit, nanswered, raceVars>>
    /\ last_resp' = [last_resp EXCEPT ![t] = NoResponse]

\* WritePeek without the cases 304 and 412
WritePeekNoMismatch(t, resp) ==
    IF ~resp.ok THEN "error"
    ELSE IF resp.code = 404 /\ ~IsUnknown(if_equal[t]) /\ ~IsNoValue(if_equal[t])
    THEN "mismatch"
    ELSE "put"

\* What WriteTask::OnPeekResponse makes of the HEAD response: "error" (the
\* transport failed), "mismatch" (the generation did not match) or "put"
WritePeek(t, resp) ==
    IF ~resp.ok THEN "error"
    ELSE IF resp.code \in {304, 412} THEN "mismatch"
    ELSE IF resp.code = 404 /\ ~IsUnknown(if_equal[t]) /\ ~IsNoValue(if_equal[t])
    THEN "mismatch"
    ELSE "put"

\* WriteTask::OnPeekResponse
WriteOnPeekResponse(t, resp) ==
    /\ kind[t] = "write"
    /\ pc[t] = "head"
    /\ IF WritePeek(t, resp) = "error"
       THEN /\ TaskEnds(t, ErrorResult(resp.st))
            /\ UNCHANGED <<start_time_, req, nmain>>
       ELSE IF WritePeek(t, resp) = "mismatch"
       THEN /\ TaskEnds(t, GenResult("Unknown", TimeAt("OnPeekResponse", nhead[t])))
            /\ UNCHANGED <<start_time_, req, nmain>>
       ELSE DoPut(t, credentials_[t])
    /\ UNCHANGED <<driverVars, metricVars, optVars, needed, attempt_, credentials_,
                   nhead, listVars>>
    /\ nanswered' = [nanswered EXCEPT ![t] = @ + 1]
    /\ Destructor(t)
    /\ UNCHANGED <<rate_admit, rate_finish, nadmit, maybe_credentials, raceVars>>
    /\ last_resp' = [last_resp EXCEPT ![t] =
           Classified("OnPeekResponse", resp, ResponseStatus(resp))]

\* WriteTask::FinishResponse: the result, and whether the latency histogram
\* got an observation
WriteFinishResponse(t, resp) ==
    IF resp.code = 404 /\ ~IsUnknown(if_equal[t])
    THEN [r |-> GenResult("Unknown", start_time_[t]), observed |-> 0]
    ELSE [r |-> StorageGenerationFromHeaders(resp, start_time_[t]), observed |-> 1]

\* WriteTask::OnResponse
WriteOnResponse(t, resp) ==
    /\ kind[t] = "write"
    /\ pc[t] = "main"
    /\ IF ~needed[t]
       THEN /\ TaskEnds(t, result[t])
            /\ UNCHANGED <<attempt_, metricVars>>
       ELSE LET status == ResponseStatus(resp)
            IN  IF status # "Ok" /\ IsRetriable(status)
                THEN /\ attempt_' = [attempt_ EXCEPT ![t] = @ + 1]
                     /\ IF BackoffForAttemptAsync(attempt_[t]) = "Ok"
                        THEN /\ s3_retries' = Increment(s3_retries)
                             /\ pc' = [pc EXCEPT ![t] = "backoff"]
                             /\ UNCHANGED <<result, latency_obs>>
                        ELSE /\ TaskEnds(t, AbortedResult(status))
                             /\ UNCHANGED metricVars
                ELSE IF status # "Ok"
                THEN /\ TaskEnds(t, ErrorResult(status))
                     /\ UNCHANGED <<attempt_, metricVars>>
                ELSE LET f == WriteFinishResponse(t, resp)
                     IN  /\ TaskEnds(t, f.r)
                         /\ latency_obs' = latency_obs + f.observed
                         /\ UNCHANGED <<attempt_, s3_retries>>
    /\ UNCHANGED <<driverVars, optVars, needed, start_time_, credentials_, req,
                   nhead, nmain, listVars>>
    /\ nanswered' = [nanswered EXCEPT ![t] = @ + 1]
    /\ Destructor(t)
    /\ UNCHANGED <<rate_admit, rate_finish, nadmit, maybe_credentials, raceVars>>
    /\ last_resp' = [last_resp EXCEPT ![t] =
           IF ~needed[t] THEN NoResponse
           ELSE ClassifiedWrite(resp, ResponseStatus(resp))]

\* ---------------------------------------------------------------- DeleteTask
\* DeleteTask::DoDelete
DoDelete(t, creds) ==
    /\ start_time_' = [start_time_ EXCEPT ![t] = TimeAt("DoDelete", nmain[t] + 1)]
    /\ req' = [req EXCEPT ![t] = Request("DELETE", "omitted", "omitted", creds)]
    /\ nmain' = [nmain EXCEPT ![t] = @ + 1]
    /\ pc' = [pc EXCEPT ![t] = "main"]
    /\ UNCHANGED result

\* DeleteTask::Retry
DeleteRetry(t, ctor, get) ==
    /\ kind[t] = "delete"
    /\ pc[t] \in {"ready", "backoff"}
    /\ IF ~needed[t]
       THEN /\ TaskEnds(t, result[t])
            /\ UNCHANGED <<credential_provider_, credentials_, start_time_, req,
                           nhead, nmain>>
       ELSE LET c == GetCredentials(credential_provider_, ctor, get)
            IN  /\ credential_provider_' = c.cache
                /\ IF c.res = "error"
                   THEN /\ TaskEnds(t, ErrorResult("CredentialError"))
                        /\ UNCHANGED <<credentials_, start_time_, req, nhead, nmain>>
                   ELSE /\ credentials_' = [credentials_ EXCEPT ![t] =
                                              IF c.res = "creds" THEN "creds" ELSE @]
                        /\ IF IsUnknown(if_equal[t])
                           THEN DoDelete(t, credentials_'[t]) /\ UNCHANGED nhead
                           ELSE /\ req' = [req EXCEPT ![t] =
                                     Request("HEAD", AddGenerationHeader(if_equal[t]),
                                             "omitted", credentials_'[t])]
                                /\ nhead' = [nhead EXCEPT ![t] = @ + 1]
                                /\ pc' = [pc EXCEPT ![t] = "head"]
                                /\ UNCHANGED <<result, start_time_, nmain>>
    /\ UNCHANGED <<max_retries, metricVars, optVars, needed, attempt_, listVars>>
    /\ maybe_credentials' = [maybe_credentials EXCEPT ![t] =
           IF ~needed[t] THEN @
           ELSE GetCredentials(credential_provider_, ctor, get).res]
    /\ Destructor(t)
    /\ UNCHANGED <<rate_admit, rate_finish, nadmit, nanswered, raceVars>>
    /\ last_resp' = [last_resp EXCEPT ![t] = NoResponse]

\* What DeleteTask::OnPeekResponse makes of the HEAD response: "error",
\* "mismatch" or "delete".  Its switch has no case 304.
DeletePeek(t, resp) ==
    IF ~resp.ok THEN "error"
    ELSE IF resp.code = 412 THEN "mismatch"
    ELSE IF resp.code = 404 /\ ~IsUnknown(if_equal[t]) /\ ~IsNoValue(if_equal[t])
    THEN "mismatch"
    ELSE "delete"

\* DeleteTask::OnPeekResponse
DeleteOnPeekResponse(t, resp) ==
    /\ kind[t] = "delete"
    /\ pc[t] = "head"
    /\ IF DeletePeek(t, resp) = "error"
       THEN /\ TaskEnds(t, ErrorResult(resp.st))
            /\ UNCHANGED <<start_time_, req, nmain>>
       ELSE IF DeletePeek(t, resp) = "mismatch"
       THEN /\ TaskEnds(t, GenResult("Unknown", TimeAt("OnPeekResponse", nhead[t])))
            /\ UNCHANGED <<start_time_, req, nmain>>
       ELSE DoDelete(t, credentials_[t])
    /\ UNCHANGED <<driverVars, metricVars, optVars, needed, attempt_, credentials_,
                   nhead, listVars>>
    /\ nanswered' = [nanswered EXCEPT ![t] = @ + 1]
    /\ Destructor(t)
    /\ UNCHANGED <<rate_admit, rate_finish, nadmit, maybe_credentials, raceVars>>
    /\ last_resp' = [last_resp EXCEPT ![t] =
           Classified("OnPeekResponse", resp, ResponseStatus(resp))]

\* DeleteResponseStatus without the case 404
DeleteResponseStatusNo404(resp) ==
    IF ~resp.ok THEN resp.st ELSE HttpResponseCodeToStatus(resp.code)

\* The status DeleteTask::OnResponse classifies: 404 is handled outside the
\* retry loop
DeleteResponseStatus(resp) ==
    IF ~resp.ok THEN resp.st
    ELSE IF resp.code = 404 THEN "Ok"
    ELSE HttpResponseCodeToStatus(resp.code)

\* The result DeleteTask::OnResponse publishes for a response of status Ok
DeleteResult(t, resp) ==
    IF resp.code = 404 /\ ~IsNoValue(if_equal[t]) /\ ~IsUnknown(if_equal[t])
    THEN GenResult("Unknown", start_time_[t])
    ELSE GenResult("NoValue", start_time_[t])

\* DeleteTask::OnResponse
DeleteOnResponse(t, resp) ==
    /\ kind[t] = "delete"
    /\ pc[t] = "main"
    /\ IF ~needed[t]
       THEN /\ TaskEnds(t, result[t])
            /\ UNCHANGED <<attempt_, s3_retries>>
       ELSE LET status == DeleteResponseStatus(resp)
            IN  IF status # "Ok" /\ IsRetriable(status)
                THEN /\ attempt_' = [attempt_ EXCEPT ![t] = @ + 1]
                     /\ IF BackoffForAttemptAsync(attempt_[t]) = "Ok"
                        THEN /\ s3_retries' = Increment(s3_retries)
                             /\ pc' = [pc EXCEPT ![t] = "backoff"]
                             /\ UNCHANGED result
                        ELSE /\ TaskEnds(t, AbortedResult(status))
                             /\ UNCHANGED s3_retries
                ELSE IF status # "Ok"
                THEN /\ TaskEnds(t, ErrorResult(status))
                     /\ UNCHANGED <<attempt_, s3_retries>>
                ELSE /\ TaskEnds(t, DeleteResult(t, resp))
                     /\ UNCHANGED <<attempt_, s3_retries>>
    /\ UNCHANGED <<driverVars, latency_obs, optVars, needed, start_time_,
                   credentials_, req, nhead, nmain, listVars>>
    /\ nanswered' = [nanswered EXCEPT ![t] = @ + 1]
    /\ Destructor(t)
    /\ UNCHANGED <<rate_admit, rate_finish, nadmit, maybe_credentials, raceVars>>
    /\ last_resp' = [last_resp EXCEPT ![t] =
           IF ~needed[t] THEN NoResponse
           ELSE Classified("OnResponse", resp, DeleteResponseStatus(resp))]


\* ---------------------------------------------------------------- ListTask
\* A ListTask handler runs from one read of cancelled_ to the next: the
\* flag is the only state of the task another thread writes.

\* is_cancelled reading a flag nobody sets
is_cancelled_never(t) == FALSE

\* ListTask::is_cancelled
is_cancelled(t) == cancelled_[t]

\* The receiver is told the listing is over
Finished(ev, how) == ev \o <<how, "stopping">>

\* ListTask::IssueRequest (also the body of ListTask::Retry).  The prefix is
\* a reference to options_.range.inclusive_min, so cutting it to
\* strip_prefix_length bytes changes the range the task filters with.
ListIssueRequest(t, ctor, get) ==
    /\ kind[t] = "list"
    /\ pc[t] \in {"ready", "backoff"}
    /\ IF is_cancelled(t)
       THEN /\ events' = [events EXCEPT ![t] = Finished(@, "done")]
            /\ pc' = [pc EXCEPT ![t] = "done"]
            /\ UNCHANGED <<credential_provider_, range, req, nmain, start_time_>>
       ELSE LET r == range[t]
                prefix == IF r.inclusive_min # <<>> /\ r.strip_prefix_length # 0
                          THEN SubstrTo(r.inclusive_min, r.strip_prefix_length)
                          ELSE r.inclusive_min
                c == GetCredentials(credential_provider_, ctor, get)
            IN  /\ range' = [range EXCEPT ![t].inclusive_min = prefix]
                /\ credential_provider_' = c.cache
                /\ IF c.res = "error"
                   THEN /\ events' = [events EXCEPT ![t] = Finished(@, "error")]
                        /\ pc' = [pc EXCEPT ![t] = "done"]
                        /\ UNCHANGED <<req, nmain, start_time_>>
                   ELSE /\ req' = [req EXCEPT ![t] =
                                ListRequest(IF c.res = "creds" THEN "creds" ELSE "empty",
                                            prefix, continuation_token_[t])]
                        /\ nmain' = [nmain EXCEPT ![t] = @ + 1]
                        /\ start_time_' = [start_time_ EXCEPT ![t] =
                                             TimeAt("IssueRequest", nmain[t] + 1)]
                        /\ pc' = [pc EXCEPT ![t] = "main"]
                        /\ UNCHANGED events
    /\ UNCHANGED <<max_retries, metricVars, optVars, needed, result, attempt_,
                   credentials_, nhead, orig_min, continuation_token_, cancelled_,
                   page, k, npages, last_value>>
    /\ maybe_credentials' = [maybe_credentials EXCEPT ![t] =
           IF is_cancelled(t) THEN @
           ELSE GetCredentials(credential_provider_, ctor, get).res]
    /\ Destructor(t)
    /\ UNCHANGED <<rate_admit, rate_finish, nadmit, nanswered, raceVars>>
    /\ last_resp' = [last_resp EXCEPT ![t] = NoResponse]

\* ListTail without the else: after IssueRequest() for the next page the
\* listing is also reported done
ListTailNoElse(t, body, ev) ==
    IF body.truncated = "true" /\ body.token # "missing"
    THEN [pc |-> "ready", events |-> Finished(ev, "done"), token |-> body.token,
          more |-> 1]
    ELSE [pc |-> "done", events |-> Finished(ev, "done"), token |-> "", more |-> 0]

\* ListTail storing no new token: the next request repeats the old one
ListTailKeepsToken(t, body, ev) ==
    IF body.truncated = "missing"
    THEN [pc |-> "done", events |-> Finished(ev, "error"),
          token |-> continuation_token_[t], more |-> 0]
    ELSE IF body.truncated = "true"
    THEN IF body.token = "missing"
         THEN [pc |-> "done", events |-> Finished(ev, "error"),
               token |-> continuation_token_[t], more |-> 0]
         ELSE [pc |-> "ready", events |-> ev, token |-> continuation_token_[t], more |-> 1]
    ELSE [pc |-> "done", events |-> Finished(ev, "done"), token |-> "", more |-> 0]

\* The end of ListTask::OnResponseImpl, after the loop over the keys: reads
\* <IsTruncated> and either goes on to the next page or ends the listing
ListTail(t, body, ev) ==
    IF body.truncated = "missing"
    THEN [pc |-> "done", events |-> Finished(ev, "error"),
          token |-> continuation_token_[t], more |-> 0]
    ELSE IF body.truncated = "true"
    THEN IF body.token = "missing"
         THEN [pc |-> "done", events |-> Finished(ev, "error"),
               token |-> continuation_token_[t], more |-> 0]
         ELSE [pc |-> "ready", events |-> ev, token |-> body.token, more |-> 1]
    ELSE [pc |-> "done", events |-> Finished(ev, "done"), token |-> "", more |-> 0]

\* What stays of a page once OnResponseImpl is through with its keys: the
\* <IsTruncated> and <NextContinuationToken> it read at the end
PageEnd(body) == [NoPage EXCEPT !.truncated = body.truncated, !.token = body.token]

\* The payloads the server may send now: it ends the listing after
\* MaxPages truncated pages
PageAllowed(t, body) ==
    body.truncated = "true" =>
        /\ npages[t] < MaxPages
        /\ body.token \in {"missing", TokenFor(npages[t] + 1)}

\* ListTask::OnResponse with OnResponseImpl, up to the first key.  A failed
\* response that is not retriable is dereferenced (response->payload): the
\* build may stop the process there, or read some payload.
ListOnResponse(t, resp, body, crash) ==
    /\ kind[t] = "list"
    /\ pc[t] = "main"
    /\ PageAllowed(t, body)
    /\ crash => ~resp.ok /\ ~IsRetriable(resp.st) /\ ~is_cancelled(t) /\ body = NoPage
    /\ (is_cancelled(t) \/ IsRetriable(ResponseStatus(resp))) => body = NoPage
    /\ LET status == ResponseStatus(resp)
       IN  IF is_cancelled(t)
           THEN /\ events' = [events EXCEPT ![t] = Finished(@, "done")]
                /\ pc' = [pc EXCEPT ![t] = "done"]
                /\ UNCHANGED <<s3_retries, attempt_, nmain, continuation_token_,
                               page, k, npages>>
           ELSE IF status # "Ok" /\ IsRetriable(status)
           THEN /\ attempt_' = [attempt_ EXCEPT ![t] = @ + 1]
                /\ IF BackoffForAttemptAsync(attempt_[t]) = "Ok"
                   THEN /\ s3_retries' = Increment(s3_retries)
                        /\ pc' = [pc EXCEPT ![t] = "backoff"]
                        /\ UNCHANGED events
                   ELSE /\ events' = [events EXCEPT ![t] = Finished(@, "error")]
                        /\ pc' = [pc EXCEPT ![t] = "done"]
                        /\ UNCHANGED s3_retries
                /\ UNCHANGED <<nmain, continuation_token_, page, k, npages>>
           ELSE IF ~resp.ok /\ crash
           THEN /\ pc' = [pc EXCEPT ![t] = "crashed"]
                /\ UNCHANGED <<s3_retries, attempt_, nmain, continuation_token_,
                               page, k, npages, events>>
           ELSE IF ~body.open \/ body.keycount = -1
           THEN /\ events' = [events EXCEPT ![t] = Finished(@, "error")]
                /\ pc' = [pc EXCEPT ![t] = "done"]
                /\ UNCHANGED <<s3_retries, attempt_, nmain, continuation_token_,
                               page, k, npages>>
           ELSE IF body.keycount > 0
           THEN /\ page' = [page EXCEPT ![t] = body]
                /\ k' = [k EXCEPT ![t] = 0]
                /\ pc' = [pc EXCEPT ![t] = "keys"]
                /\ UNCHANGED <<s3_retries, attempt_, nmain, continuation_token_,
                               npages, events>>
           ELSE LET out == ListTail(t, body, events[t])
                IN  /\ attempt_' = [attempt_ EXCEPT ![t] = 0]
                    /\ nmain' = [nmain EXCEPT ![t] = 0]
                    /\ pc' = [pc EXCEPT ![t] = out.pc]
                    /\ events' = [events EXCEPT ![t] = out.events]
                    /\ continuation_token_' = [continuation_token_ EXCEPT ![t] = out.token]
                    /\ npages' = [npages EXCEPT ![t] = @ + out.more]
                    /\ page' = [page EXCEPT ![t] = PageEnd(body)]
                    /\ UNCHANGED <<s3_retries, k>>
    /\ UNCHANGED <<driverVars, latency_obs, optVars, needed, result, start_time_,
                   credentials_, req, nhead, range, orig_min, cancelled_, last_value>>
    /\ nanswered' = [nanswered EXCEPT ![t] = IF nmain'[t] = 0 THEN 0 ELSE @ + 1]
    /\ Destructor(t)
    /\ UNCHANGED <<rate_admit, rate_finish, nadmit, maybe_credentials, raceVars>>
    /\ last_resp' = [last_resp EXCEPT ![t] =
           IF is_cancelled(t) THEN NoResponse
           ELSE Classified("OnResponse", resp, ResponseStatus(resp))]

\* The loop over the keys of a page that leaves attempt_ as it is at the end
ListKeyStepKeepsAttempt(t) ==
    /\ kind[t] = "list"
    /\ pc[t] = "keys"
    /\ LET body == page[t]
       IN  IF is_cancelled(t)
           THEN /\ events' = [events EXCEPT ![t] = Finished(@, "done")]
                /\ pc' = [pc EXCEPT ![t] = "done"]
                /\ page' = [page EXCEPT ![t] = NoPage]
                /\ UNCHANGED <<attempt_, nmain, continuation_token_, k, npages, last_value>>
           ELSE IF k[t] >= Len(body.entries)
           THEN /\ events' = [events EXCEPT ![t] = Finished(@, "error")]
                /\ pc' = [pc EXCEPT ![t] = "done"]
                /\ page' = [page EXCEPT ![t] = NoPage]
                /\ UNCHANGED <<attempt_, nmain, continuation_token_, k, npages, last_value>>
           ELSE LET key == body.entries[k[t] + 1]
                    strip == range[t].strip_prefix_length
                    emit == ~RangeEmpty(range[t]) /\ Contains(range[t], key)
                    value == IF strip # 0 /\ Len(key) >= strip
                             THEN SubstrFrom(key, strip) ELSE key
                    ev == IF emit THEN Append(events[t], "value") ELSE events[t]
                    em == IF emit THEN [key |-> key, value |-> value]
                          ELSE last_value[t]
                IN  /\ last_value' = [last_value EXCEPT ![t] = em]
                    /\ IF k[t] + 1 < body.keycount
                       THEN /\ k' = [k EXCEPT ![t] = @ + 1]
                            /\ events' = [events EXCEPT ![t] = ev]
                            /\ UNCHANGED <<pc, page, attempt_, nmain,
                                           continuation_token_, npages>>
                       ELSE LET out == ListTail(t, body, ev)
                            IN  /\ UNCHANGED attempt_
                                /\ nmain' = [nmain EXCEPT ![t] = 0]
                                /\ pc' = [pc EXCEPT ![t] = out.pc]
                                /\ events' = [events EXCEPT ![t] = out.events]
                                /\ continuation_token_' =
                                       [continuation_token_ EXCEPT ![t] = out.token]
                                /\ npages' = [npages EXCEPT ![t] = @ + out.more]
                                /\ page' = [page EXCEPT ![t] = PageEnd(body)]
                                /\ k' = [k EXCEPT ![t] = 0]
    /\ UNCHANGED <<driverVars, metricVars, optVars, needed, result, start_time_,
                   credentials_, req, nhead, range, orig_min, cancelled_>>
    /\ nanswered' = [nanswered EXCEPT ![t] = IF nmain'[t] = 0 THEN 0 ELSE @]
    /\ Destructor(t)
    /\ UNCHANGED <<rate_admit, rate_finish, nadmit, maybe_credentials, raceVars>>
    /\ last_resp' = [last_resp EXCEPT ![t] = NoResponse]

\* One turn of the loop of ListTask::OnResponseImpl over the <Contents>
\* blocks, and after the last turn the end of OnResponseImpl
ListKeyStep(t) ==
    /\ kind[t] = "list"
    /\ pc[t] = "keys"
    /\ LET body == page[t]
       IN  IF is_cancelled(t)
           THEN /\ events' = [events EXCEPT ![t] = Finished(@, "done")]
                /\ pc' = [pc EXCEPT ![t] = "done"]
                /\ page' = [page EXCEPT ![t] = NoPage]
                /\ UNCHANGED <<attempt_, nmain, continuation_token_, k, npages, last_value>>
           ELSE IF k[t] >= Len(body.entries)
           THEN /\ events' = [events EXCEPT ![t] = Finished(@, "error")]
                /\ pc' = [pc EXCEPT ![t] = "done"]
                /\ page' = [page EXCEPT ![t] = NoPage]
                /\ UNCHANGED <<attempt_, nmain, continuation_token_, k, npages, last_value>>
           ELSE LET key == body.entries[k[t] + 1]
                    strip == range[t].strip_prefix_length
                    emit == ~RangeEmpty(range[t]) /\ Contains(range[t], key)
                    value == IF strip # 0 /\ Len(key) >= strip
                             THEN SubstrFrom(key, strip) ELSE key
                    ev == IF emit THEN Append(events[t], "value") ELSE events[t]
                    em == IF emit THEN [key |-> key, value |-> value]
                          ELSE last_value[t]
                IN  /\ last_value' = [last_value EXCEPT ![t] = em]
                    /\ IF k[t] + 1 < body.keycount
                       THEN /\ k' = [k EXCEPT ![t] = @ + 1]
                            /\ events' = [events EXCEPT ![t] = ev]
                            /\ UNCHANGED <<pc, page, attempt_, nmain,
                                           continuation_token_, npages>>
                       ELSE LET out == ListTail(t, body, ev)
                            IN  /\ attempt_' = [attempt_ EXCEPT ![t] = 0]
                                /\ nmain' = [nmain EXCEPT ![t] = 0]
                                /\ pc' = [pc EXCEPT ![t] = out.pc]
                                /\ events' = [events EXCEPT ![t] = out.events]
                                /\ continuation_token_' =
                                       [continuation_token_ EXCEPT ![t] = out.token]
                                /\ npages' = [npages EXCEPT ![t] = @ + out.more]
                                /\ page' = [page EXCEPT ![t] = PageEnd(body)]
                                /\ k' = [k EXCEPT ![t] = 0]
    /\ UNCHANGED <<driverVars, metricVars, optVars, needed, result, start_time_,
                   credentials_, req, nhead, range, orig_min, cancelled_>>
    /\ nanswered' = [nanswered EXCEPT ![t] = IF nmain'[t] = 0 THEN 0 ELSE @]
    /\ Destructor(t)
    /\ UNCHANGED <<rate_admit, rate_finish, nadmit, maybe_credentials, raceVars>>
    /\ last_resp' = [last_resp EXCEPT ![t] = NoResponse]


\* ---------------------------------------------------------------- ReadTask
\* S3KeyValueStore::Read
Read(t, ie, ine, br, valid) ==
    /\ pc[t] = "idle"
    /\ IF ~valid
       THEN /\ result' = [result EXCEPT ![t] = ErrorResult("InvalidArgument")]
            /\ pc' = [pc EXCEPT ![t] = "refused"]
            /\ UNCHANGED optVars
       ELSE /\ kind' = [kind EXCEPT ![t] = "read"]
            /\ if_equal' = [if_equal EXCEPT ![t] = ie]
            /\ if_not_equal' = [if_not_equal EXCEPT ![t] = ine]
            /\ byte_range' = [byte_range EXCEPT ![t] = br]
            /\ pc' = [pc EXCEPT ![t] = "rate_wait"]
            /\ UNCHANGED result
    /\ UNCHANGED <<driverVars, metricVars, needed, attempt_, start_time_,
                   credentials_, req, nhead, nmain, listVars>>
    /\ rate_admit' = [rate_admit EXCEPT ![t] = IF valid THEN "read" ELSE @]
    /\ UNCHANGED <<rate_finish, nadmit, nanswered, nfinish, maybe_credentials, raceVars>>
    /\ UNCHANGED last_resp

\* ReadTask::Retry, given what its call of GetCredentials leaves in the
\* cache and returns
ReadRetryWith(t, c) ==
    /\ kind[t] = "read"
    /\ pc[t] \in {"ready", "backoff"}
    /\ IF ~needed[t]
       THEN /\ TaskEnds(t, result[t])
            /\ UNCHANGED <<credential_provider_, start_time_, req, nmain>>
       ELSE     /\ credential_provider_' = c.cache
                /\ IF c.res = "error"
                   THEN /\ TaskEnds(t, ErrorResult("CredentialError"))
                        /\ UNCHANGED <<start_time_, req, nmain>>
                   ELSE /\ start_time_' = [start_time_ EXCEPT ![t] =
                                             TimeAt("Retry", nmain[t] + 1)]
                        /\ req' = [req EXCEPT ![t] =
                                ReadRequest(AddGenerationHeader(if_equal[t]),
                                            AddGenerationHeader(if_not_equal[t]),
                                            IF c.res = "creds" THEN "creds" ELSE "empty",
                                            IF byte_range[t] = FullRange THEN "omitted"
                                            ELSE byte_range[t])]
                        /\ nmain' = [nmain EXCEPT ![t] = @ + 1]
                        /\ pc' = [pc EXCEPT ![t] = "main"]
                        /\ UNCHANGED result
    /\ UNCHANGED <<max_retries, metricVars, optVars, needed, attempt_, credentials_,
                   nhead, listVars>>
    /\ maybe_credentials' = [maybe_credentials EXCEPT ![t] =
           IF ~needed[t] THEN @ ELSE c.res]
    /\ Destructor(t)
    /\ UNCHANGED <<rate_admit, rate_finish, nadmit, nanswered>>
    /\ last_resp' = [last_resp EXCEPT ![t] = NoResponse]

\* ReadTask::Retry
ReadRetry(t, ctor, get) ==
    /\ ReadRetryWith(t, GetCredentials(credential_provider_, ctor, get))
    /\ UNCHANGED raceVars

\* ReadResponseStatus with 404 alone handled outside the retry loop
ReadResponseStatusOnly404(resp) ==
    IF ~resp.ok THEN resp.st
    ELSE IF resp.code = 404 THEN "Ok"
    ELSE HttpResponseCodeToStatus(resp.code)

\* ReadResponseStatus without the case 404
ReadResponseStatusNo404(resp) ==
    IF ~resp.ok THEN resp.st
    ELSE IF resp.code \in {412, 304} THEN "Ok"
    ELSE HttpResponseCodeToStatus(resp.code)

\* The status ReadTask::OnResponse classifies: 412, 404 and 304 are handled
\* outside the retry loop
ReadResponseStatus(resp) ==
    IF ~resp.ok THEN resp.st
    ELSE IF resp.code \in {412, 404, 304} THEN "Ok"
    ELSE HttpResponseCodeToStatus(resp.code)

\* FinishResponse handing out the whole payload of a response that is not
\* a 206, without GetSubCord
ReadFinishResponseNoSlice(t, resp, size, cr) ==
    LET tm == start_time_[t]
        gen == StorageGenerationFromHeaders(resp, tm)
        v == Validate(byte_range[t], size)
        request_size == RangeSize(byte_range[t])
    IN  IF resp.code \in {204, 404}
        THEN ReadResult("Missing", "NoValue", tm, NoBytes)
        ELSE IF resp.code = 412
        THEN ReadResult("Unspecified", "Unknown", tm, NoBytes)
        ELSE IF resp.code = 304
        THEN ReadResult("Unspecified", if_not_equal[t], tm, NoBytes)
        ELSE IF resp.code # 206
        THEN IF ~v.ok THEN ErrorResult("OutOfRange")
             ELSE IF gen.tag = "error" THEN gen
             ELSE ReadResult("Value", gen.generation, tm, Bytes(0, size))
        ELSE IF cr = -1 THEN ErrorResult("InvalidArgument")
        ELSE IF \/ (byte_range[t].inclusive_min # -1 /\ byte_range[t].inclusive_min # cr)
                \/ (request_size # -1 /\ request_size # size)
        THEN ErrorResult("OutOfRange")
        ELSE IF gen.tag = "error" THEN gen
        ELSE ReadResult("Value", gen.generation, tm, Bytes(0, size))

\* ReadTask::FinishResponse; size is the payload's length, cr the first
\* byte position of the Content-Range header
ReadFinishResponse(t, resp, size, cr) ==
    LET tm == start_time_[t]
        gen == StorageGenerationFromHeaders(resp, tm)
        v == Validate(byte_range[t], size)
        request_size == RangeSize(byte_range[t])
    IN  IF resp.code \in {204, 404}
        THEN ReadResult("Missing", "NoValue", tm, NoBytes)
        ELSE IF resp.code = 412
        THEN ReadResult("Unspecified", "Unknown", tm, NoBytes)
        ELSE IF resp.code = 304
        THEN ReadResult("Unspecified", if_not_equal[t], tm, NoBytes)
        ELSE IF resp.code # 206
        THEN IF ~v.ok THEN ErrorResult("OutOfRange")
             ELSE IF gen.tag = "error" THEN gen
             ELSE ReadResult("Value", gen.generation, tm, Bytes(v.lo, v.hi))
        ELSE IF cr = -1 THEN ErrorResult("InvalidArgument")
        ELSE IF \/ (byte_range[t].inclusive_min # -1 /\ byte_range[t].inclusive_min # cr)
                \/ (request_size # -1 /\ request_size # size)
        THEN ErrorResult("OutOfRange")
        ELSE IF gen.tag = "error" THEN gen
        ELSE ReadResult("Value", gen.generation, tm, Bytes(0, size))

\* ReadTask::OnResponse
ReadOnResponse(t, resp, size, cr) ==
    /\ kind[t] = "read"
    /\ pc[t] = "main"
    /\ (resp.code # 206 => cr = -1)
    /\ IF ~needed[t]
       THEN /\ TaskEnds(t, result[t])
            /\ UNCHANGED <<attempt_, metricVars>>
       ELSE LET status == ReadResponseStatus(resp)
            IN  IF status # "Ok" /\ IsRetriable(status)
                THEN /\ attempt_' = [attempt_ EXCEPT ![t] = @ + 1]
                     /\ IF BackoffForAttemptAsync(attempt_[t]) = "Ok"
                        THEN /\ s3_retries' = Increment(s3_retries)
                             /\ pc' = [pc EXCEPT ![t] = "backoff"]
                             /\ UNCHANGED <<result, latency_obs>>
                        ELSE /\ TaskEnds(t, AbortedResult(status))
                             /\ UNCHANGED metricVars
                ELSE IF status # "Ok"
                THEN /\ TaskEnds(t, ErrorResult(status))
                     /\ UNCHANGED <<attempt_, metricVars>>
                ELSE /\ TaskEnds(t, ReadFinishResponse(t, resp, size, cr))
                     /\ latency_obs' = latency_obs + 1
                     /\ UNCHANGED <<attempt_, s3_retries>>
    /\ UNCHANGED <<driverVars, optVars, needed, start_time_, credentials_, req,
                   nhead, nmain, listVars>>
    /\ nanswered' = [nanswered EXCEPT ![t] = @ + 1]
    /\ Destructor(t)
    /\ UNCHANGED <<rate_admit, rate_finish, nadmit, maybe_credentials, raceVars>>
    /\ last_resp' = [last_resp EXCEPT ![t] =
           IF ~needed[t] THEN NoResponse
           ELSE ClassifiedRead(resp, ReadResponseStatus(resp), size, cr)]

\* ---------------------------------------------------------------- system
Next ==
    \E t \in TaskIds :
        \/ /\ pc[t] = "idle"
           /\ UNCHANGED <<bucketVars, promiseVars>>
           /\ \E ie \in Gens, ine \in Gens, br \in ByteRanges, valid \in BOOLEAN :
                  Read(t, ie, ine, br, valid)
        \/ /\ pc[t] = "idle"
           /\ UNCHANGED <<bucketVars, promiseVars>>
           /\ \E ie \in Gens, has_value \in BOOLEAN, valid \in BOOLEAN :
                  Write(t, ie, has_value, valid)
        \/ /\ pc[t] = "idle"
           /\ UNCHANGED <<bucketVars, promiseVars>>
           /\ \E r \in KeyRanges : ListImpl(t, r)
        \/ Start(t) /\ UNCHANGED <<bucketVars, promiseVars>>
        \/ Admit(t) /\ UNCHANGED <<bucketVars, promiseVars>>
        \/ Abandon(t) /\ UNCHANGED <<bucketVars, promiseVars>>
        \/ Cancel(t) /\ UNCHANGED <<bucketVars, promiseVars>>
        \/ /\ pc[t] \in {"ready", "backoff"}
           /\ UNCHANGED <<bucketVars, promiseVars>>
           /\ \E ctor \in CredAnswers, get \in CredAnswers :
                  \/ ReadRetry(t, ctor, get)
                  \/ WriteRetry(t, ctor, get)
                  \/ DeleteRetry(t, ctor, get)
                  \/ ListIssueRequest(t, ctor, get)
        \/ /\ pc[t] = "head"
           /\ UNCHANGED <<bucketVars, promiseVars>>
           /\ \E resp \in Responses :
                  \/ WriteOnPeekResponse(t, resp)
                  \/ DeleteOnPeekResponse(t, resp)
        \/ /\ pc[t] = "main" /\ kind[t] = "read"
           /\ UNCHANGED <<bucketVars, promiseVars>>
           /\ \E resp \in Responses, size \in PayloadSizes, cr \in ContentRanges :
                  ReadOnResponse(t, resp, size, cr)
        \/ /\ pc[t] = "main" /\ kind[t] \in {"write", "delete"}
           /\ UNCHANGED <<bucketVars, promiseVars>>
           /\ \E resp \in Responses :
                  \/ WriteOnResponse(t, resp)
                  \/ DeleteOnResponse(t, resp)
        \/ /\ pc[t] = "main" /\ kind[t] = "list"
           /\ UNCHANGED <<bucketVars, promiseVars>>
           /\ \E resp \in ListResponses, body \in PageBodies, crash \in BOOLEAN :
                  ListOnResponse(t, resp, body, crash)
        \/ ListKeyStep(t) /\ UNCHANGED <<bucketVars, promiseVars>>
        \/ t = ListId /\ DeleteRangeEmpty

Spec == Init /\ [][Next]_vars


\* ------------------------------------------------- Write tasks and a bucket
\* Two Write tasks address one key of a bucket that answers as S3 does.  The
\* server acts on a request at the step that delivers its response.
StoreTaskIds == {1, 2}

\* The ETag S3 gives the object task t writes (the tasks write different
\* values)
EtagOf(t) == IF t = 1 THEN "g2" ELSE "g3"

\* The object now in the bucket
Current == store[Len(store)]

OkResponse(code, etag) == [ok |-> TRUE, code |-> code, etag |-> etag, st |-> "Ok"]

\* The answers of the server to HEAD with If-Match: 404 for no object, 200
\* when the ETag matches, 412 when it does not.  For the empty ETag ("")
\* that NoValue is sent as, a server may also ignore the header and answer
\* 200 for an object that exists.
ServerHead(object, if_match) ==
    IF object = "absent" THEN {OkResponse(404, "missing")}
    ELSE IF if_match = object THEN {OkResponse(200, object)}
    ELSE IF if_match = "kEmptyEtag"
    THEN {OkResponse(412, "missing"), OkResponse(200, object)}
    ELSE {OkResponse(412, "missing")}

StoreInit ==
    /\ max_retries \in 0..MaxRetriesBound
    /\ credential_provider_ = "unset"
    /\ s3_retries = 0
    /\ latency_obs = 0
    /\ kind = [t \in StoreTaskIds |-> "none"]
    /\ pc = [t \in StoreTaskIds |-> "idle"]
    /\ if_equal = [t \in StoreTaskIds |-> "Unknown"]
    /\ if_not_equal = [t \in StoreTaskIds |-> "Unknown"]
    /\ byte_range = [t \in StoreTaskIds |-> FullRange]
    /\ needed = [t \in StoreTaskIds |-> TRUE]
    /\ result = [t \in StoreTaskIds |-> NoResult]
    /\ attempt_ = [t \in StoreTaskIds |-> 0]
    /\ start_time_ = [t \in StoreTaskIds |-> NoTime]
    /\ credentials_ = [t \in StoreTaskIds |-> "empty"]
    /\ req = [t \in StoreTaskIds |-> NoRequest]
    /\ last_resp = [t \in StoreTaskIds |-> NoResponse]
    /\ nhead = [t \in StoreTaskIds |-> 0]
    /\ nmain = [t \in StoreTaskIds |-> 0]
    /\ range = [t \in StoreTaskIds |-> NoRange]
    /\ orig_min = [t \in StoreTaskIds |-> NoKey]
    /\ continuation_token_ = [t \in StoreTaskIds |-> ""]
    /\ cancelled_ = [t \in StoreTaskIds |-> FALSE]
    /\ page = [t \in StoreTaskIds |-> NoPage]
    /\ k = [t \in StoreTaskIds |-> 0]
    /\ npages = [t \in StoreTaskIds |-> 0]
    /\ events = [t \in StoreTaskIds |-> <<>>]
    /\ last_value = [t \in StoreTaskIds |-> NoValue]
    /\ store \in {<<"absent">>, <<"g1">>}
    /\ call_order = <<>>
    /\ overlapped = FALSE
    /\ promise_refs = 0
    /\ promise_result = "Ok"
    /\ future_ready = FALSE
    /\ linked = {}
    /\ maybe_credentials = [t \in StoreTaskIds |-> "none"]
    /\ rate_admit = [t \in StoreTaskIds |-> "none"]
    /\ rate_finish = [t \in StoreTaskIds |-> "none"]
    /\ nadmit = [t \in StoreTaskIds |-> 0]
    /\ nanswered = [t \in StoreTaskIds |-> 0]
    /\ nfinish = [t \in StoreTaskIds |-> 0]
    /\ gc = [t \in StoreTaskIds |-> NoCall]
    /\ constructed = 0
    /\ race = FALSE

\* A caller calls Write(key, value, {if_equal})
StoreWrite(t, ie) ==
    /\ Write(t, ie, TRUE, TRUE)
    /\ call_order' = Append(call_order, t)
    /\ overlapped' = (overlapped \/ \E u \in StoreTaskIds \ {t} :
                                       pc[u] \notin {"idle", "done", "refused"})
    /\ UNCHANGED <<store, promiseVars>>

\* The server answers the HEAD of task t
StoreHead(t) ==
    /\ kind[t] = "write" /\ pc[t] = "head"
    /\ \E resp \in ServerHead(Current, req[t].if_match) : WriteOnPeekResponse(t, resp)
    /\ UNCHANGED <<bucketVars, promiseVars>>

\* The server stores the value task t PUTs and answers with its ETag
StorePut(t) ==
    /\ kind[t] = "write" /\ pc[t] = "main"
    /\ WriteOnResponse(t, OkResponse(200, EtagOf(t)))
    /\ store' = Append(store, EtagOf(t))
    /\ UNCHANGED <<call_order, overlapped, promiseVars>>

\* The server is busy: 503, nothing stored
StoreBusy(t) ==
    /\ kind[t] = "write" /\ pc[t] = "main"
    /\ WriteOnResponse(t, OkResponse(503, "missing"))
    /\ UNCHANGED <<bucketVars, promiseVars>>

StoreNext ==
    \E t \in StoreTaskIds :
        \/ \E ie \in {"Unknown", "NoValue", "g1"} : StoreWrite(t, ie)
        \/ Start(t) /\ UNCHANGED <<bucketVars, promiseVars>>
        \/ Admit(t) /\ UNCHANGED <<bucketVars, promiseVars>>
        \/ WriteRetry(t, "ok", "ok") /\ UNCHANGED <<bucketVars, promiseVars>>
        \/ StoreHead(t)
        \/ StorePut(t)
        \/ StoreBusy(t)

SpecStore == StoreInit /\ [][StoreNext]_vars

\* ------------------------------------------------------------ DeleteRange
\* One DeleteRange call: the ListTask with a DeleteRangeListReceiver and the
\* DeleteTask of each listed key.  Task ListId is the listing, the others
\* are the Deletes in the order set_value starts them.
RangeTaskIds == ListId .. (MaxPages + 2)
DeleteIds == RangeTaskIds \ {ListId}

\* DeleteRange lists with default ListOptions: no prefix is stripped
RangeKeyRanges == {r \in KeyRanges : r.strip_prefix_length = 0}
\* The bucket answers with well-formed pages of one key at most, or with
\* no listing
RangePageBodies ==
    {NoPage} \cup
    {b \in PageBodies :
        /\ b.open /\ b.keycount = Len(b.entries)
        /\ b.entries \in {<<>>, << <<1, 1>> >>, << <<1, 2>> >>}
        /\ b.truncated = "false" \/ (b.truncated = "true" /\ b.token # "missing")}
RangeListResponses ==
    {r \in ListResponses : r.ok /\ r.code \in {200, 503}}
RangeDeleteResponses ==
    {r \in HttpResponses : r.etag = "missing" /\ r.code \in {204, 403, 503}}

RangeInit ==
    /\ max_retries \in 0..MaxRetriesBound
    /\ credential_provider_ = "unset"
    /\ s3_retries = 0
    /\ latency_obs = 0
    /\ kind = [t \in RangeTaskIds |-> "none"]
    /\ pc = [t \in RangeTaskIds |-> "idle"]
    /\ if_equal = [t \in RangeTaskIds |-> "Unknown"]
    /\ if_not_equal = [t \in RangeTaskIds |-> "Unknown"]
    /\ byte_range = [t \in RangeTaskIds |-> FullRange]
    /\ needed = [t \in RangeTaskIds |-> TRUE]
    /\ result = [t \in RangeTaskIds |-> NoResult]
    /\ attempt_ = [t \in RangeTaskIds |-> 0]
    /\ start_time_ = [t \in RangeTaskIds |-> NoTime]
    /\ credentials_ = [t \in RangeTaskIds |-> "empty"]
    /\ req = [t \in RangeTaskIds |-> NoRequest]
    /\ last_resp = [t \in RangeTaskIds |-> NoResponse]
    /\ nhead = [t \in RangeTaskIds |-> 0]
    /\ nmain = [t \in RangeTaskIds |-> 0]
    /\ range = [t \in RangeTaskIds |-> NoRange]
    /\ orig_min = [t \in RangeTaskIds |-> NoKey]
    /\ continuation_token_ = [t \in RangeTaskIds |-> ""]
    /\ cancelled_ = [t \in RangeTaskIds |-> FALSE]
    /\ page = [t \in RangeTaskIds |-> NoPage]
    /\ k = [t \in RangeTaskIds |-> 0]
    /\ npages = [t \in RangeTaskIds |-> 0]
    /\ events = [t \in RangeTaskIds |-> <<>>]
    /\ last_value = [t \in RangeTaskIds |-> NoValue]
    /\ store = <<"absent">>
    /\ call_order = <<>>
    /\ overlapped = FALSE
    /\ promise_refs = 0
    /\ promise_result = "Ok"
    /\ future_ready = FALSE
    /\ linked = {}
    /\ maybe_credentials = [t \in RangeTaskIds |-> "none"]
    /\ rate_admit = [t \in RangeTaskIds |-> "none"]
    /\ rate_finish = [t \in RangeTaskIds |-> "none"]
    /\ nadmit = [t \in RangeTaskIds |-> 0]
    /\ nanswered = [t \in RangeTaskIds |-> 0]
    /\ nfinish = [t \in RangeTaskIds |-> 0]
    /\ gc = [t \in RangeTaskIds |-> NoCall]
    /\ constructed = 0
    /\ race = FALSE

Has(ev, e) == \E i \in DOMAIN ev : ev[i] = e

\* What the step has told the receiver
NewEvents ==
    SubSeq(events'[ListId], Len(events[ListId]) + 1, Len(events'[ListId]))

\* The Delete that set_value starts next
NextDelete == CHOOSE d \in DeleteIds \ linked : \A e \in DeleteIds \ linked : d <= e

\* A Delete future that LinkError holds is not ready yet
Pending(d) == d \in linked /\ pc[d] \notin {"done", "refused"}

\* A receiver whose set_value does not link the Delete to the promise
ReceiverNoLink ==
    LET ended == Has(NewEvents, "done") \/ Has(NewEvents, "error")
        refs == promise_refs - (IF ended THEN 1 ELSE 0)
    IN  /\ promise_refs' = refs
        /\ promise_result' = IF Has(NewEvents, "error") THEN "error" ELSE promise_result
        /\ linked' = IF Has(NewEvents, "value") THEN linked \cup {NextDelete} ELSE linked
        /\ future_ready' = (future_ready \/ refs = 0)

\* DeleteRangeListReceiver on what the step has told it.  set_value links
\* the promise to the future of a Delete, and the link holds the promise;
\* set_error records a deferred error; set_error and set_done let go of the
\* receiver's promise.  The future is ready once nothing holds the promise.
DeleteRangeListReceiver ==
    LET ended == Has(NewEvents, "done") \/ Has(NewEvents, "error")
        refs == promise_refs + (IF Has(NewEvents, "value") THEN 1 ELSE 0)
                             - (IF ended THEN 1 ELSE 0)
    IN  /\ promise_refs' = refs
        /\ promise_result' = IF Has(NewEvents, "error") THEN "error" ELSE promise_result
        /\ linked' = IF Has(NewEvents, "value") THEN linked \cup {NextDelete} ELSE linked
        /\ future_ready' = (future_ready \/ refs = 0)

\* A step of the ListTask, which runs on only after the Delete call of
\* set_value has returned
RangeList(A) ==
    /\ \A d \in linked : pc[d] # "idle"
    /\ A
    /\ DeleteRangeListReceiver
    /\ UNCHANGED bucketVars

\* LinkError once the future of Delete d is ready: the link lets go of the
\* promise, and an error of the Delete is recorded as a deferred error
LinkReady(d) ==
    IF pc'[d] \in {"done", "refused"}
    THEN /\ promise_refs' = promise_refs - 1
         /\ promise_result' = IF result'[d].tag = "error" THEN "error"
                              ELSE promise_result
         /\ future_ready' = (future_ready \/ promise_refs = 1)
    ELSE UNCHANGED <<promise_refs, promise_result, future_ready>>

\* A step of the Delete that set_value started
RangeDelete(d, A) ==
    /\ Pending(d)
    /\ A
    /\ LinkReady(d)
    /\ UNCHANGED <<bucketVars, linked>>

\* S3KeyValueStore::DeleteRange: the receiver holds the promise
DeleteRange(r) ==
    /\ ~RangeEmpty(r)
    /\ ListImpl(ListId, r)
    /\ promise_refs' = 1
    /\ UNCHANGED <<bucketVars, promise_result, future_ready, linked>>

RangeNext ==
    \/ DeleteRangeEmpty
    \/ \E r \in RangeKeyRanges : DeleteRange(r)
    \/ RangeList(Start(ListId))
    \/ RangeList(Admit(ListId))
    \/ RangeList(Cancel(ListId))
    \/ RangeList(ListIssueRequest(ListId, "ok", "ok"))
    \/ \E resp \in RangeListResponses, body \in RangePageBodies :
           RangeList(ListOnResponse(ListId, resp, body, FALSE))
    \/ RangeList(ListKeyStep(ListId))
    \/ \E d \in DeleteIds :
           \/ \E valid \in BOOLEAN : RangeDelete(d, Write(d, "Unknown", FALSE, valid))
           \/ RangeDelete(d, Start(d))
           \/ RangeDelete(d, Admit(d))
           \/ RangeDelete(d, DeleteRetry(d, "ok", "ok"))
           \/ \E resp \in RangeDeleteResponses : RangeDelete(d, DeleteOnResponse(d, resp))

SpecRange == RangeInit /\ [][RangeNext]_vars

\* ---------------------------------------------------------------- properties
IsConcrete(g) == ~IsUnknown(g) /\ ~IsNoValue(g)
IsTerminal(e) == e \in {"done", "error"}

\* The receiver calls so far are the start of
\* starting, value*, (done | error), stopping
FlowPrefix(ev) ==
    /\ Len(ev) > 0 => ev[1] = "starting"
    /\ \A i \in 1..Len(ev) :
        /\ ev[i] = "starting" => i = 1
        /\ ev[i] = "stopping" => i = Len(ev) /\ i > 2 /\ IsTerminal(ev[i - 1])
        /\ IsTerminal(ev[i]) => i = Len(ev) - 1 /\ ev[i + 1] = "stopping"
FlowComplete(ev) ==
    FlowPrefix(ev) /\ Len(ev) >= 3 /\ ev[Len(ev)] = "stopping"

\* C1: the receiver of a ListImpl call sees set_starting once and first,
\* then set_value calls, then exactly one of set_done and set_error, then
\* set_stopping once and last; a listing that has ended (also one over an
\* empty range) has delivered all of them.
C1_ReceiverProtocol ==
    \A t \in TaskIds :
        kind[t] = "list" =>
            /\ FlowPrefix(events[t])
            /\ pc[t] \in {"done", "refused"} => FlowComplete(events[t])

\* a listing of two pages that delivered a key and then ended with set_error
C1_Witness ==
    \E t \in TaskIds :
        /\ kind[t] = "list" /\ pc[t] = "done" /\ npages[t] > 0
        /\ \E i \in 1..Len(events[t]) : events[t][i] = "value"
        /\ events[t][Len(events[t]) - 1] = "error"

\* C2: in a conditional Write a HEAD response of 304 or 412, or of 404 when
\* if_equal is a concrete generation, ends the task with the result
\* {generation = Unknown} and no PUT follows that HEAD (none at all when no
\* retry came before); a HEAD response of 404 when if_equal = NoValue is
\* followed by the PUT.
C2_PeekMismatchEndsWrite ==
    \A t \in TaskIds :
        (/\ kind[t] = "write" /\ ~IsUnknown(if_equal[t])
         /\ last_resp[t].handler = "OnPeekResponse" /\ last_resp[t].ok) =>
            /\ (\/ last_resp[t].code \in {304, 412}
                \/ (last_resp[t].code = 404 /\ IsConcrete(if_equal[t]))) =>
                   /\ pc[t] = "done"
                   /\ result[t].tag = "value" /\ result[t].generation = "Unknown"
                   /\ req[t].method = "HEAD"
                   /\ attempt_[t] = 0 => nmain[t] = 0
            /\ (last_resp[t].code = 404 /\ IsNoValue(if_equal[t])) =>
                   /\ pc[t] = "main" /\ req[t].method = "PUT"
                   /\ result[t] = NoResult

\* a Write with a concrete if_equal ended by a HEAD response of 304
C2_Witness ==
    \E t \in TaskIds :
        /\ kind[t] = "write" /\ IsConcrete(if_equal[t])
        /\ last_resp[t].handler = "OnPeekResponse" /\ last_resp[t].code = 304
        /\ result[t].generation = "Unknown" /\ nmain[t] = 0

\* C3: a Write with if_equal = NoValue whose HEAD returns 200 ends with the
\* result {generation = Unknown} and issues no PUT.
C3_NoValuePeek200IsMismatch ==
    \A t \in TaskIds :
        (/\ kind[t] = "write" /\ IsNoValue(if_equal[t])
         /\ last_resp[t].handler = "OnPeekResponse" /\ last_resp[t].ok
         /\ last_resp[t].code = 200) =>
            /\ result[t].tag = "value" /\ result[t].generation = "Unknown"
            /\ req[t].method # "PUT"

\* C4: ListTask passes to set_value only keys that lie in the range
\* [inclusive_min, exclusive_max) the caller gave.
C4_EmittedKeysInCallerRange ==
    \A t \in TaskIds :
        last_value[t] # NoValue =>
            Contains(KeyRange(orig_min[t], range[t].exclusive_max, 0),
                     last_value[t].key)

\* C5: when OnResponse of a Read, Write, Delete or List task meets a
\* retriable failure, a retry is scheduled if the retries made so far are
\* fewer than max_retries, and otherwise the task ends with an Aborted error
\* that wraps the failure; so no more than max_retries + 1 main requests are
\* issued (for List: per page), and none is retried when max_retries = 0.
C5_RetryBudget ==
    \A t \in TaskIds :
        /\ nmain[t] <= max_retries + 1
        /\ pc[t] = "backoff" => max_retries > 0
        /\ (last_resp[t].handler = "OnResponse" /\ IsRetriable(last_resp[t].status)) =>
            IF attempt_[t] - 1 < max_retries
            THEN /\ pc[t] = "backoff"
                 /\ result[t] = NoResult
                 /\ kind[t] = "list" => ~(\E i \in 1..Len(events[t]) : IsTerminal(events[t][i]))
            ELSE /\ pc[t] = "done"
                 /\ kind[t] # "list" => result[t] = AbortedResult(last_resp[t].status)
                 /\ kind[t] = "list" =>
                        /\ FlowComplete(events[t])
                        /\ events[t][Len(events[t]) - 1] = "error"

\* a task that was retried once and then ended Aborted
C5_Witness ==
    \E t \in TaskIds :
        /\ result[t].status = "Aborted" /\ result[t].wraps = "Unavailable"
        /\ s3_retries = 1 /\ attempt_[t] = 2 /\ nmain[t] = 2

\* C6: once the future of a Read, Write or Delete is abandoned the task
\* issues no further HTTP request and schedules no retry; in particular the
\* HEAD response of a conditional Write or Delete is not followed by the PUT
\* or DELETE.
C6_AbandonedIssuesNothing ==
    [][\A t \in TaskIds :
          (kind[t] \in {"read", "write", "delete"} /\ ~needed[t]) =>
              /\ nmain'[t] = nmain[t]
              /\ nhead'[t] = nhead[t]
              /\ pc'[t] \notin {"backoff"} \/ pc[t] = "backoff"]_vars

\* C7: with the cancel flag set, ListTask issues no request and passes no
\* key to set_value; what it delivers is set_done followed by set_stopping,
\* never set_error, also when the flag was set during a backoff wait or
\* while a request was in flight.
C7_CancelledListEndsDone ==
    /\ [](\A t \in TaskIds :
            (kind[t] = "list" /\ cancelled_[t] /\ pc[t] = "done") =>
                /\ FlowComplete(events[t])
                /\ events[t][Len(events[t]) - 1] = "done")
    /\ [][\A t \in TaskIds :
            (kind[t] = "list" /\ cancelled_[t]) =>
                /\ req'[t] = req[t] /\ nmain'[t] = nmain[t]
                /\ last_value'[t] = last_value[t]
                /\ \/ events'[t] = events[t] /\ pc'[t] = pc[t]
                   \/ events'[t] = events[t] \o <<"done", "stopping">> /\ pc'[t] = "done"]_vars

\* a listing cancelled after a retry was scheduled, ended with set_done
C7_Witness ==
    \E t \in TaskIds :
        /\ kind[t] = "list" /\ cancelled_[t] /\ pc[t] = "done" /\ attempt_[t] > 0
        /\ events[t][Len(events[t]) - 1] = "done"

\* C8: a PUT response of 404 when if_equal is not Unknown ends the Write
\* with the result {generation = Unknown, time = start_time}, not an error.
C8_Put404IsMismatch ==
    \A t \in TaskIds :
        (/\ kind[t] = "write" /\ ~IsUnknown(if_equal[t])
         /\ last_resp[t].handler = "OnResponse" /\ last_resp[t].ok
         /\ last_resp[t].code = 404) =>
            result[t] = GenResult("Unknown", start_time_[t])

\* C9: a conditional Delete issues a HEAD with If-Match before any DELETE,
\* an unconditional Delete issues no HEAD, and a HEAD response of 304 or 412
\* ends the Delete with {generation = Unknown} without a DELETE.
C9_DeletePeek ==
    \A t \in TaskIds :
        kind[t] = "delete" =>
            /\ IsUnknown(if_equal[t]) => nhead[t] = 0
            /\ ~IsUnknown(if_equal[t]) => nmain[t] <= nhead[t]
            /\ req[t].method = "HEAD" =>
                   req[t].if_match = AddGenerationHeader(if_equal[t])
                   /\ req[t].if_match # "omitted"
            /\ (/\ last_resp[t].handler = "OnPeekResponse" /\ last_resp[t].ok
                /\ last_resp[t].code \in {304, 412}) =>
                   /\ pc[t] = "done"
                   /\ result[t].tag = "value" /\ result[t].generation = "Unknown"
                   /\ req[t].method = "HEAD"

\* C10: a DELETE response of 2xx or 404 ends the Delete with the result
\* {generation = NoValue, time = start_time}, or {generation = Unknown}
\* for a 404 when if_equal is a concrete generation; an unconditional Delete
\* of a key that is already gone (404) succeeds with NoValue.
C10_DeleteResult ==
    \A t \in TaskIds :
        (/\ kind[t] = "delete"
         /\ last_resp[t].handler = "OnResponse" /\ last_resp[t].ok
         /\ last_resp[t].code \in {200, 204, 206, 404}) =>
            /\ pc[t] = "done"
            /\ start_time_[t] = TimeAt("DoDelete", nmain[t])
            /\ result[t] =
                 GenResult(IF last_resp[t].code = 404 /\ IsConcrete(if_equal[t])
                           THEN "Unknown" ELSE "NoValue",
                           start_time_[t])

\* an unconditional Delete answered 404 after one retry
C10_Witness ==
    \E t \in TaskIds :
        /\ kind[t] = "delete" /\ IsUnknown(if_equal[t])
        /\ last_resp[t].handler = "OnResponse" /\ last_resp[t].code = 404
        /\ result[t].generation = "NoValue" /\ nmain[t] = 2


\* C11: with key k absent and no concurrent writer, Write(k, v, if_equal =
\* NoValue) ends with a concrete generation and v stored; a second such
\* Write, called after the first has ended, ends with generation Unknown,
\* issues no PUT and leaves v stored.
C11_SecondNoValueWriteFails ==
    \A a, b \in StoreTaskIds :
        (/\ store[1] = "absent" /\ call_order = <<a, b>> /\ ~overlapped
         /\ IsNoValue(if_equal[a]) /\ IsNoValue(if_equal[b])
         /\ pc[a] = "done" /\ result[a].tag = "value"
         /\ pc[b] = "done" /\ result[b].tag = "value") =>
            /\ result[a].generation = EtagOf(a)
            /\ result[b].generation = "Unknown"
            /\ nmain[b] = 0
            /\ Current = EtagOf(a)

\* C12: the PUT of a Write carries no precondition, and a PUT the server
\* answers 200 ends the task with the generation of what it stored, whatever
\* the HEAD probe of another task saw; so two Writes with the same if_equal
\* whose HEAD probes both pass before either PUT is served both store their
\* value and both end with a concrete generation.
C12_PutIsUnconditional ==
    \A t \in StoreTaskIds :
        /\ req[t].method = "PUT" =>
               req[t].if_match = "omitted" /\ req[t].if_none_match = "omitted"
        /\ (last_resp[t].handler = "OnResponse" /\ last_resp[t].code = 200) =>
               /\ result[t] = GenResult(EtagOf(t), start_time_[t])
               /\ \E i \in 2..Len(store) : store[i] = EtagOf(t)

\* both Writes carried if_equal = g1, the object g1 was there, and both
\* ended with the generation of the object they stored: both HEAD probes
\* were answered before either PUT was served
C12_Witness ==
    /\ store[1] = "g1" /\ Len(store) = 3
    /\ \A t \in StoreTaskIds :
        /\ if_equal[t] = "g1" /\ pc[t] = "done"
        /\ nhead[t] = 1 /\ nmain[t] = 1
        /\ result[t].generation = EtagOf(t)


\* The task ended in success: a Read with a result, a Write with the
\* generation of the stored object, a Delete with NoValue
Succeeded(t) ==
    /\ pc[t] = "done" /\ result[t].tag = "value"
    /\ kind[t] = "write" => IsConcrete(result[t].generation)
    /\ kind[t] = "delete" => IsNoValue(result[t].generation)

\* The step classifies a retriable failure of task t's main request
RetriableFailure(t) ==
    /\ last_resp'[t] # last_resp[t]
    /\ last_resp'[t].handler = "OnResponse"
    /\ IsRetriable(last_resp'[t].status)

C14_OneLatencyObservation ==
    \A t \in TaskIds :
        (kind[t] \in {"read", "write", "delete"} /\ Succeeded(t)) => latency_obs = 1


\* The number of keys the receiver has been given
NValues(ev) == Cardinality({i \in DOMAIN ev : ev[i] = "value"})

\* The step is the end of OnResponseImpl for a page whose keys are through
PageEnds(t) == nmain[t] > 0 /\ nmain'[t] = 0

\* C15: a page with IsTruncated = true and a NextContinuationToken is
\* followed by one request that carries that token, a page with IsTruncated
\* = false by set_done and no request.  Every request carries the token of
\* the page before it (none on the first page) and a retry repeats the
\* request it retries.  A key reaches set_value only from the page being
\* read, at the position after the one before it, and a response that is
\* retried delivers no key.
C15_Paging ==
    /\ [](\A t \in TaskIds :
            (kind[t] = "list" /\ pc[t] \in {"main", "keys", "backoff"}) =>
                /\ req[t].token = continuation_token_[t]
                /\ continuation_token_[t] =
                       (IF npages[t] = 0 THEN "" ELSE TokenFor(npages[t])))
    /\ [][\A t \in TaskIds : kind[t] = "list" =>
            /\ PageEnds(t) =>
                /\ (page'[t].truncated = "true" /\ page'[t].token # "missing") =>
                       /\ pc'[t] = "ready"
                       /\ continuation_token_'[t] = page'[t].token
                       /\ npages'[t] = npages[t] + 1
                       /\ events'[t] \in {events[t], Append(events[t], "value")}
                /\ page'[t].truncated = "false" =>
                       /\ pc'[t] = "done"
                       /\ req'[t] = req[t]
                       /\ events'[t] \in {Finished(events[t], "done"),
                                          Finished(Append(events[t], "value"), "done")}
            /\ (pc'[t] = "main" /\ pc[t] # "main") =>
                /\ pc[t] \in {"ready", "backoff"}
                /\ req'[t].token = continuation_token_[t]
                /\ pc[t] = "ready" => nmain'[t] = 1
                /\ pc[t] = "backoff" => req'[t].token = req[t].token
            /\ (pc'[t] = "keys" /\ pc[t] # "keys") =>
                /\ pc[t] = "main" /\ ~IsRetriable(last_resp'[t].status) /\ k'[t] = 0
            /\ (pc'[t] = "keys" /\ pc[t] = "keys") =>
                /\ k'[t] \in {k[t], k[t] + 1} /\ page'[t] = page[t]
            /\ NValues(events'[t]) # NValues(events[t]) =>
                /\ pc[t] = "keys"
                /\ NValues(events'[t]) = NValues(events[t]) + 1
                /\ last_value'[t].key = page[t].entries[k[t] + 1]
                /\ k'[t] = k[t] + 1 \/ PageEnds(t)
            /\ RetriableFailure(t) =>
                /\ events'[t] \in {events[t], Finished(events[t], "error")}
                /\ page'[t] = page[t]]_vars

\* a listing of two pages, the first one retried, that gave the receiver
\* two keys or more and ended with set_done
C15_Witness ==
    \E t \in TaskIds :
        /\ kind[t] = "list" /\ pc[t] = "done" /\ ~cancelled_[t]
        /\ npages[t] = 1 /\ page[t].truncated = "false"
        /\ s3_retries = 1
        /\ NValues(events[t]) >= 2
        /\ events[t][Len(events[t]) - 1] = "done"


\* The last response of Read task t came over HTTP with this status code
ReadGot(t, code) ==
    /\ kind[t] = "read"
    /\ last_resp[t].handler = "OnResponse"
    /\ last_resp[t].ok
    /\ last_resp[t].code = code

\* C17: a Read answered 412 ends with the ReadResult {Unspecified, Unknown},
\* a Read answered 304 with {Unspecified, if_not_equal}; the task is over,
\* its result is no error and the response counted as no failed attempt.
C17_Read412And304 ==
    \A t \in TaskIds :
        /\ ReadGot(t, 412) =>
               /\ pc[t] = "done"
               /\ result[t] = ReadResult("Unspecified", "Unknown", start_time_[t], NoBytes)
               /\ attempt_[t] = nmain[t] - 1 /\ s3_retries = attempt_[t]
        /\ ReadGot(t, 304) =>
               /\ pc[t] = "done"
               /\ result[t] = ReadResult("Unspecified", if_not_equal[t], start_time_[t],
                                         NoBytes)
               /\ attempt_[t] = nmain[t] - 1 /\ s3_retries = attempt_[t]

\* a Read with if_not_equal = g1 answered 304 that ended with generation g1
C17_Witness ==
    \E t \in TaskIds :
        /\ ReadGot(t, 304) /\ if_not_equal[t] = "g1"
        /\ pc[t] = "done" /\ result[t].generation = "g1"
        /\ result[t].state = "Unspecified"

\* C18: a Read answered 204 or 404 ends with the ReadResult {Missing,
\* NoValue} whatever its if_equal, if_not_equal and byte_range; the task is
\* over and the response counted as no failed attempt.
C18_ReadMissing ==
    \A t \in TaskIds :
        (ReadGot(t, 204) \/ ReadGot(t, 404)) =>
            /\ pc[t] = "done"
            /\ result[t] = ReadResult("Missing", "NoValue", start_time_[t], NoBytes)
            /\ attempt_[t] = nmain[t] - 1 /\ s3_retries = attempt_[t]

\* a conditional Read of a byte range answered 404 on its second request
C18_Witness ==
    \E t \in TaskIds :
        /\ ReadGot(t, 404) /\ if_equal[t] = "g1" /\ if_not_equal[t] = "g2"
        /\ byte_range[t] = ByteRange(1, 3)
        /\ nmain[t] = 2
        /\ pc[t] = "done" /\ result[t].state = "Missing"

C20_ValueLength ==
    \A t \in TaskIds :
        (kind[t] = "read" /\ pc[t] = "done" /\ result[t].tag = "value"
         /\ result[t].state = "Value") =>
            LET br == byte_range[t]
                len == result[t].value.hi - result[t].value.lo
            IN  /\ ReadGot(t, last_resp[t].code)
                /\ result[t].value.lo >= 0
                /\ result[t].value.hi <= last_resp[t].size
                /\ (br.inclusive_min >= 0 /\ br.exclusive_max # -1) =>
                       len = br.exclusive_max - br.inclusive_min
                /\ br.exclusive_max = -1 => len <= last_resp[t].size

\* a Read of the bytes [1, 3) answered 200 with the whole object of three
\* bytes, sliced by the task
C20_Witness ==
    \E t \in TaskIds :
        /\ ReadGot(t, 200) /\ byte_range[t] = ByteRange(1, 3)
        /\ last_resp[t].size = 3
        /\ pc[t] = "done" /\ result[t].state = "Value"
        /\ result[t].value = Bytes(1, 3)


\* C16: the future of DeleteRange over a range that is not empty is ready
\* exactly when the listing has ended with set_done or set_error and every
\* Delete that set_value started is over; one Delete was started for each
\* listed key; the future then holds an error if the listing ended with
\* set_error or a Delete ended with an error, and success if not.
C16_DeleteRangeFuture ==
    kind[ListId] = "list" =>
        /\ future_ready <=>
               /\ Has(events[ListId], "done") \/ Has(events[ListId], "error")
               /\ \A d \in linked : pc[d] \in {"done", "refused"}
        /\ Cardinality(linked) = NValues(events[ListId])
        /\ future_ready =>
               (promise_result = "error" <=>
                    \/ Has(events[ListId], "error")
                    \/ \E d \in linked : result[d].tag = "error")

\* the listing ended with set_done after two keys, one Delete ended with
\* NoValue and the other with an error, and the future is ready
C16_Witness ==
    /\ future_ready /\ promise_result = "error"
    /\ Has(events[ListId], "done") /\ NValues(events[ListId]) = 2
    /\ \E d, e \in linked :
           /\ pc[d] = "done" /\ result[d].generation = "NoValue"
           /\ pc[e] = "done" /\ result[e].tag = "error"


\* C21: a Write with if_equal = Unknown never issues a HEAD: every request
\* it has issued is a PUT.  A 2xx answer to the PUT that carries an ETag
\* ends the task with that ETag as generation and, as time, the clock
\* reading DoPut took for this very PUT.
C21_UnconditionalWrite ==
    \A t \in TaskIds :
        (kind[t] = "write" /\ IsUnknown(if_equal[t])) =>
            /\ nhead[t] = 0 /\ pc[t] # "head"
            /\ req[t].method \in {"none", "PUT"}
            /\ pc[t] = "main" => start_time_[t] = TimeAt("DoPut", nmain[t])
            /\ (/\ last_resp[t].handler = "OnResponse" /\ last_resp[t].ok
                /\ last_resp[t].code \in 200..299
                /\ last_resp[t].etag # "missing") =>
                   /\ pc[t] = "done"
                   /\ result[t] = GenResult(last_resp[t].etag, TimeAt("DoPut", nmain[t]))

\* an unconditional Write whose second PUT was answered 200 with ETag g1
C21_Witness ==
    \E t \in TaskIds :
        /\ kind[t] = "write" /\ IsUnknown(if_equal[t])
        /\ last_resp[t].handler = "OnResponse" /\ last_resp[t].code = 200
        /\ nmain[t] = 2 /\ pc[t] = "done"
        /\ result[t] = GenResult("g1", TimeAt("DoPut", 2))


\* C22: when GetCredentials finds no credentials (NotFound from the
\* provider or from its construction) the requests of that attempt carry
\* empty credentials; when it fails with another error the task ends in
\* that step with the error (set_error, set_stopping for a listing), issues
\* no request and schedules no retry.
C22_Credentials ==
    /\ [](\A t \in TaskIds :
            /\ (maybe_credentials[t] = "nullopt" /\ pc[t] \in {"head", "main"}) =>
                   req[t].creds = "empty"
            /\ maybe_credentials[t] = "error" =>
                   /\ pc[t] = "done"
                   /\ kind[t] # "list" => result[t] = ErrorResult("CredentialError")
                   /\ kind[t] = "list" =>
                          SubSeq(events[t], Len(events[t]) - 1, Len(events[t]))
                              = <<"error", "stopping">>)
    /\ [][\A t \in TaskIds :
            (maybe_credentials'[t] = "error" /\ maybe_credentials[t] # "error") =>
                /\ req'[t] = req[t] /\ nhead'[t] = nhead[t] /\ nmain'[t] = nmain[t]
                /\ s3_retries' = s3_retries /\ attempt_'[t] = attempt_[t]]_vars


\* C23: ListImpl with an empty range gives the receiver set_starting,
\* set_done, set_stopping and nothing else; DeleteRange with an empty range
\* returns a future that is ready with success.  Neither makes a task:
\* nothing is queued at a rate limiter or at the admission queue, nothing
\* is admitted or released, no request is built.
C23_EmptyRange ==
    \A t \in TaskIds :
        LET r == [range[t] EXCEPT !.inclusive_min = orig_min[t]]
            no_task == /\ pc[t] = "refused"
                       /\ rate_admit[t] = "none" /\ rate_finish[t] = "none"
                       /\ nadmit[t] = 0 /\ nfinish[t] = 0
                       /\ nhead[t] = 0 /\ nmain[t] = 0 /\ req[t] = NoRequest
        IN  /\ (kind[t] = "list" /\ RangeEmpty(r)) =>
                   /\ events[t] = <<"starting", "done", "stopping">>
                   /\ no_task
            /\ (kind[t] = "list" /\ ~RangeEmpty(r)) => rate_admit[t] = "read"
            /\ future_ready =>
                   /\ promise_result = "Ok"
                   /\ events[t] = <<>>
                   /\ no_task

\* ListImpl was called with the empty range [<<2>>, <<1>>)
C23_Witness ==
    \E t \in TaskIds :
        /\ kind[t] = "list" /\ range[t] = KeyRange(<<2>>, <<1>>, 0)
        /\ events[t] = <<"starting", "done", "stopping">>
        /\ pc[t] = "refused"


\* ------------------------------------------------------- Read and List
\* A Read or a List call, with the transport answering every request, the
\* backoff timer firing, and the rate limiter and the admission queue
\* letting every queued task through.
\* The conditions, the byte range and the answers of the server explored
LiveGens == {"Unknown", "g1"}
LiveResponses ==
    {r \in Responses : r.code \in {0, 200, 404, 503} /\ r.etag \in {"g1", "missing"}}
LiveListResponses == {r \in ListResponses : r.code \in {0, 200, 503}}
\* What the queues, the executor, the timer and the transport do to task t
LiveStep(t) ==
    /\ UNCHANGED <<bucketVars, promiseVars>>
    /\ \/ Start(t)
       \/ Admit(t)
       \/ \E ctor \in CredAnswers, get \in CredAnswers :
              ReadRetry(t, ctor, get) \/ ListIssueRequest(t, ctor, get)
       \/ \E resp \in LiveResponses, size \in {0, 1}, cr \in {-1, 0} :
              ReadOnResponse(t, resp, size, cr)
       \/ \E resp \in LiveListResponses, body \in RangePageBodies, crash \in BOOLEAN :
              ListOnResponse(t, resp, body, crash)
       \/ ListKeyStep(t)

LiveNext ==
    \E t \in TaskIds :
        \/ /\ pc[t] = "idle"
           /\ UNCHANGED <<bucketVars, promiseVars>>
           /\ \E ie \in LiveGens, ine \in LiveGens, valid \in BOOLEAN :
                  Read(t, ie, ine, FullRange, valid)
        \/ /\ pc[t] = "idle"
           /\ UNCHANGED <<bucketVars, promiseVars>>
           /\ \E r \in KeyRanges : ListImpl(t, r)
        \/ Abandon(t) /\ UNCHANGED <<bucketVars, promiseVars>>
        \/ Cancel(t) /\ UNCHANGED <<bucketVars, promiseVars>>
        \/ LiveStep(t)

SpecLive == Init /\ [][LiveNext]_vars /\ \A t \in TaskIds : WF_vars(LiveStep(t))

\* C24: a Read whose future was abandoned and a List that was cancelled
\* are destroyed in the end: the task reaches the state where no callback
\* holds it and its destructor has given the admission slot back.
C24_AbandonedTaskIsDestroyed ==
    \A t \in TaskIds :
        /\ (kind[t] = "read" /\ ~needed[t]) ~> (pc[t] = "done" /\ nfinish[t] = 1)
        /\ (kind[t] = "list" /\ cancelled_[t]) ~> (pc[t] = "done" /\ nfinish[t] = 1)

\* a Read abandoned while its request was in flight and destroyed when the
\* response came, without a result
C24_Witness ==
    \E t \in TaskIds :
        /\ kind[t] = "read" /\ ~needed[t]
        /\ pc[t] = "done" /\ nfinish[t] = 1
        /\ nmain[t] = 1 /\ nanswered[t] = 1
        /\ result[t] = NoResult


\* The HEAD of a conditional Write is answered for task t in this step
PeekAnswered(t) ==
    /\ kind[t] = "write" /\ pc[t] = "head"
    /\ nanswered'[t] = nanswered[t] + 1

\* C25: when the HEAD of a conditional Write fails in the transport or is
\* answered 5xx, the task ends with that error: no PUT follows and no retry
\* is scheduled.
C25_PeekFailureFails ==
    [][\A t \in TaskIds :
          (PeekAnswered(t) /\ (~last_resp'[t].ok \/ last_resp'[t].code >= 500)) =>
              /\ pc'[t] = "done"
              /\ result'[t] = ErrorResult(last_resp'[t].status)
              /\ nmain'[t] = nmain[t]
              /\ attempt_'[t] = attempt_[t]]_vars

\* The part of C25 that holds: a HEAD that failed in the transport ends the
\* task with the transport's status, without a PUT and without a retry
C25_TransportFailureFails ==
    [][\A t \in TaskIds :
          (PeekAnswered(t) /\ ~last_resp'[t].ok) =>
              /\ pc'[t] = "done"
              /\ result'[t] = ErrorResult(last_resp'[t].status)
              /\ nmain'[t] = nmain[t]
              /\ attempt_'[t] = attempt_[t]]_vars

\* a PUT is in flight after the HEAD was answered 503
C25_PutAfter5xx ==
    \E t \in TaskIds :
        /\ kind[t] = "write" /\ pc[t] = "main"
        /\ last_resp[t].handler = "OnPeekResponse"
        /\ last_resp[t].code = 503

\* ------------------------------------------- concurrent GetCredentials
\* Two Read tasks whose Retry the executor runs on different threads, with
\* S3KeyValueStore::GetCredentials taken one memory access at a time.
\* gc[t].at is where the thread of task t is in the call: "out", "make"
\* (GetS3CredentialProvider), "store" and "storing" (the assignment to
\* credential_provider_, begun and not yet complete), "deref", "get" (the
\* provider's GetCredentials), "ret".
CredTaskIds == StoreTaskIds
CredsResponses ==
    {r \in Responses : r.code \in {200, 503} /\ r.etag = "g1"}

CredsInit == StoreInit /\ store = <<"absent">>

\* The other threads that are in the middle of assigning credential_provider_
Writers(t) == {u \in CredTaskIds \ {t} : gc[u].at = "storing"}

\* What a read of credential_provider_ by the thread of t can yield: the
\* stored value or, while another thread is assigning it, the value in the
\* making
ReadOf(t) == {credential_provider_} \cup {gc[u].made : u \in Writers(t)}

InGetCredentials(t, at) ==
    /\ kind[t] = "read"
    /\ pc[t] \in {"ready", "backoff"}
    /\ needed[t]
    /\ gc[t].at = at
    /\ UNCHANGED <<max_retries, metricVars, optVars, pc, needed, result, attempt_,
                   start_time_, credentials_, req, last_resp, nhead, nmain, listVars,
                   bucketVars, promiseVars, hookVars, maybe_credentials>>

\* if (!credential_provider_)
CredsTest(t, seen) ==
    /\ InGetCredentials(t, "out")
    /\ seen \in ReadOf(t)
    /\ gc' = [gc EXCEPT ![t] =
                [at |-> IF seen = "unset" THEN "make" ELSE "deref",
                 made |-> "none", res |-> "none"]]
    /\ race' = (race \/ Writers(t) # {})
    /\ UNCHANGED <<credential_provider_, constructed>>

\* auto result = GetS3CredentialProvider(spec_.profile, transport_)
CredsMake(t, ctor) ==
    /\ InGetCredentials(t, "make")
    /\ gc' = [gc EXCEPT ![t] =
                IF ctor = "error" THEN [at |-> "ret", made |-> "none", res |-> "error"]
                ELSE [at |-> "store",
                      made |-> IF ctor = "notfound" THEN "null" ELSE "provider",
                      res |-> "none"]]
    /\ constructed' = IF ctor = "ok" THEN constructed + 1 ELSE constructed
    /\ UNCHANGED <<credential_provider_, race>>

\* credential_provider_ = ... : the assignment begins
CredsStoreBegin(t) ==
    /\ InGetCredentials(t, "store")
    /\ gc' = [gc EXCEPT ![t].at = "storing"]
    /\ race' = (race \/ Writers(t) # {})
    /\ UNCHANGED <<credential_provider_, constructed>>

\* the assignment is complete
CredsStoreEnd(t) ==
    /\ InGetCredentials(t, "storing")
    /\ credential_provider_' = gc[t].made
    /\ gc' = [gc EXCEPT ![t].at = "deref"]
    /\ UNCHANGED <<constructed, race>>

\* if (!*credential_provider_) return std::nullopt
CredsDeref(t, seen) ==
    /\ InGetCredentials(t, "deref")
    /\ seen \in ReadOf(t)
    /\ gc' = [gc EXCEPT ![t] =
                IF seen = "null" THEN [at |-> "ret", made |-> @.made, res |-> "nullopt"]
                ELSE [at |-> "get", made |-> @.made, res |-> "none"]]
    /\ race' = (race \/ Writers(t) # {})
    /\ UNCHANGED <<credential_provider_, constructed>>

\* (*credential_provider_)->GetCredentials()
CredsGet(t, get) ==
    /\ InGetCredentials(t, "get")
    /\ gc' = [gc EXCEPT ![t] =
                [at |-> "ret", made |-> @.made,
                 res |-> IF get = "ok" THEN "creds"
                         ELSE IF get = "notfound" THEN "nullopt" ELSE "error"]]
    /\ UNCHANGED <<credential_provider_, constructed, race>>

\* GetCredentials returns and ReadTask::Retry goes on with the result
CredsReturn(t) ==
    /\ gc[t].at = "ret"
    /\ ReadRetryWith(t, [cache |-> credential_provider_, res |-> gc[t].res])
    /\ gc' = [gc EXCEPT ![t].at = "out"]
    /\ UNCHANGED <<constructed, race, bucketVars, promiseVars>>

CredsNext ==
    \E t \in CredTaskIds :
        \/ Read(t, "Unknown", "Unknown", FullRange, TRUE)
               /\ UNCHANGED <<bucketVars, promiseVars>>
        \/ Start(t) /\ UNCHANGED <<bucketVars, promiseVars>>
        \/ Admit(t) /\ UNCHANGED <<bucketVars, promiseVars>>
        \/ \E seen \in {"unset", "null", "provider"} : CredsTest(t, seen)
        \/ \E ctor \in CredAnswers : CredsMake(t, ctor)
        \/ CredsStoreBegin(t)
        \/ CredsStoreEnd(t)
        \/ \E seen \in {"null", "provider"} : CredsDeref(t, seen)
        \/ \E get \in CredAnswers : CredsGet(t, get)
        \/ CredsReturn(t)
        \/ \E resp \in CredsResponses :
               ReadOnResponse(t, resp, 1, -1) /\ UNCHANGED <<bucketVars, promiseVars>>

SpecCreds == CredsInit /\ [][CredsNext]_vars

\* C26: however the GetCredentials calls of different tasks interleave, the
\* provider is constructed at most once and credential_provider_ is never
\* read or assigned by one thread while another thread is assigning it.
C26_FirstPopulationExclusive ==
    /\ constructed <= 1
    /\ ~race

\* two providers were constructed, each by a thread that found the cache
\* unset
C26_ConstructedTwice == constructed = 2

\* one thread read or assigned credential_provider_ while another thread's
\* assignment was in progress
C26_RacingAccess == race


\* The listing of task t has issued a request
ListRequested(t) == kind[t] = "list" /\ req[t].method = "GET"

\* C27: every list request carries as prefix the first strip_prefix_length
\* bytes of the lower bound the caller gave, whenever that bound is not
\* empty and whatever strip_prefix_length is (0 included); every page and
\* every retry of the listing sends the same prefix.
C27_ListPrefix ==
    /\ [](\A t \in TaskIds :
            (ListRequested(t) /\ orig_min[t] # <<>>) =>
                req[t].prefix = SubstrTo(orig_min[t], range[t].strip_prefix_length))
    /\ [][\A t \in TaskIds :
            (ListRequested(t) /\ nmain'[t] # nmain[t]) =>
                req'[t].prefix = req[t].prefix]_vars

\* The part of C27 that holds: with strip_prefix_length > 0 the prefix is
\* the first strip_prefix_length bytes of the caller's lower bound, and in
\* every case the pages and retries of one listing send the same prefix
C27_ListPrefixWhenStripping ==
    /\ [](\A t \in TaskIds :
            (ListRequested(t) /\ orig_min[t] # <<>> /\ range[t].strip_prefix_length > 0) =>
                req[t].prefix = SubstrTo(orig_min[t], range[t].strip_prefix_length))
    /\ [][\A t \in TaskIds :
            (ListRequested(t) /\ nmain'[t] # nmain[t]) =>
                req'[t].prefix = req[t].prefix]_vars

\* a list request with strip_prefix_length = 0 whose prefix is the whole
\* lower bound
C27_WholeLowerBoundSent ==
    \E t \in TaskIds :
        /\ ListRequested(t) /\ pc[t] = "main"
        /\ range[t].strip_prefix_length = 0
        /\ orig_min[t] # <<>>
        /\ req[t].prefix = orig_min[t]


\* Requests of task t the transport has not answered yet
InFlight(t) == nhead[t] + nmain[t] - nanswered[t]

\* Task t hands a request to the transport in this step
Issues(t) ==
    /\ pc'[t] \in {"head", "main"}
    /\ nhead'[t] # nhead[t] \/ nmain'[t] # nmain[t]

\* C28: a task has at most one request in flight, and it issues a request
\* only when none of its requests is unanswered: after admission, when the
\* backoff timer fires, or in the handler of the response to its previous
\* request.
C28_OneRequestInFlight ==
    /\ [](\A t \in TaskIds :
            /\ InFlight(t) \in {0, 1}
            /\ InFlight(t) = 1 <=> pc[t] \in {"head", "main"})
    /\ [][\A t \in TaskIds :
            Issues(t) =>
                \/ pc[t] \in {"ready", "backoff"} /\ InFlight(t) = 0
                \/ /\ pc[t] = "head" /\ pc'[t] = "main"
                   /\ nanswered'[t] = nanswered[t] + 1]_vars

\* the PUT of a conditional Write in flight, issued by the handler of the
\* HEAD's response
C28_Witness ==
    \E t \in TaskIds :
        /\ kind[t] = "write" /\ pc[t] = "main"
        /\ nhead[t] = 1 /\ nmain[t] = 1 /\ nanswered[t] = 1

\* C29: a task calls the admission queue's Finish once, when it is
\* destroyed, and only after it was admitted; from admission to destruction,
\* retries and backoff waits included, it holds the slot, so every request
\* is issued with the slot held and no slot is given back twice.
C29_AdmissionSlot ==
    /\ [](\A t \in TaskIds :
            /\ nadmit[t] <= 1 /\ nfinish[t] <= nadmit[t]
            /\ nfinish[t] = 1 <=> (nadmit[t] = 1 /\ pc[t] = "done")
            /\ pc[t] \in {"ready", "head", "main", "backoff", "keys"} =>
                   (nadmit[t] = 1 /\ nfinish[t] = 0))
    /\ [][\A t \in TaskIds :
            Issues(t) => (nadmit[t] = 1 /\ nfinish'[t] = 0)]_vars

\* a task destroyed after a retry: admitted once, slot given back once
C29_Witness ==
    \E t \in TaskIds :
        /\ pc[t] = "done" /\ nmain[t] = 2 /\ attempt_[t] = 1
        /\ nadmit[t] = 1 /\ nfinish[t] = 1

\* The rate limiter a task of this kind is queued at
LimiterOf(kd) == IF kd \in {"read", "list"} THEN "read" ELSE "write"

\* C30: the hooks of a task run in order: the rate limiter's Finish before
\* the admission queue admits the task, admission before the first request,
\* each response handler after the request it answers.  Read and List tasks
\* go through the read rate limiter, Write and Delete tasks through the
\* write rate limiter.
C30_HookOrder ==
    /\ [](\A t \in TaskIds :
            /\ rate_admit[t] # "none" => rate_admit[t] = LimiterOf(kind[t])
            /\ pc[t] \in {"rate_wait", "admit_wait"} => rate_admit[t] # "none"
            /\ rate_finish[t] \in {"none", rate_admit[t]}
            /\ nadmit[t] = 1 => rate_finish[t] # "none"
            /\ nhead[t] + nmain[t] > 0 => nadmit[t] = 1
            /\ nanswered[t] <= nhead[t] + nmain[t])
    /\ [][\A t \in TaskIds :
            /\ rate_finish'[t] # rate_finish[t] =>
                   (pc[t] = "rate_wait" /\ nadmit[t] = 0)
            /\ nadmit'[t] # nadmit[t] =>
                   (rate_finish[t] # "none" /\ nhead[t] + nmain[t] = 0)
            /\ nanswered'[t] = nanswered[t] + 1 => InFlight(t) = 1]_vars

\* a Write that went through the write rate limiter and the admission queue
\* and whose HEAD and PUT were answered
C30_Witness ==
    \E t \in TaskIds :
        /\ kind[t] = "write" /\ pc[t] = "done"
        /\ rate_admit[t] = "write" /\ rate_finish[t] = "write"
        /\ nadmit[t] = 1 /\ nhead[t] = 1 /\ nmain[t] = 1 /\ nanswered[t] = 2


\* Task t is a Write or a Delete with a condition on the generation
Conditional(t) == kind[t] \in {"write", "delete"} /\ ~IsUnknown(if_equal[t])

\* C31: the retry of a conditional Write or Delete after a retriable failure
\* of its PUT or DELETE begins with a new HEAD that carries If-Match; the
\* next PUT or DELETE is issued only by the handler that classified the
\* response to that HEAD.
C31_RetryFromPhase1 ==
    /\ [](\A t \in TaskIds :
            Conditional(t) =>
                /\ nmain[t] <= nhead[t]
                /\ pc[t] = "main" => nmain[t] = nhead[t]
                /\ pc[t] = "backoff" => nmain[t] = nhead[t])
    /\ [][\A t \in TaskIds :
            Conditional(t) =>
                /\ (pc[t] = "backoff" /\ pc'[t] \notin {"backoff", "done"}) =>
                       /\ pc'[t] = "head"
                       /\ req'[t].method = "HEAD"
                       /\ req'[t].if_match = AddGenerationHeader(if_equal[t])
                       /\ nhead'[t] = nhead[t] + 1
                       /\ nmain'[t] = nmain[t]
                /\ nmain'[t] # nmain[t] =>
                       /\ pc[t] = "head"
                       /\ nanswered'[t] = nanswered[t] + 1
                       /\ last_resp'[t].handler = "OnPeekResponse"]_vars

\* the second PUT of a conditional Write in flight, after the second HEAD
\* was answered
C31_Witness ==
    \E t \in TaskIds :
        /\ kind[t] = "write" /\ ~IsUnknown(if_equal[t])
        /\ pc[t] = "main" /\ attempt_[t] = 1
        /\ nhead[t] = 2 /\ nmain[t] = 2 /\ nanswered[t] = 3


\* ------------------------------------------------ Read, Write and Delete
\* A Read, Write or Delete call, with the rate limiter and the admission
\* queue letting the task through, the transport answering every request
\* and the backoff timer firing.
TermGens == {"Unknown", "NoValue", "g1"}
TermResponses ==
    {r \in Responses : r.code \in {0, 200, 404, 412, 503} /\ r.etag \in {"g1", "missing"}}

\* What the queues, the executor, the timer and the transport do to task t
TermStep(t) ==
    /\ UNCHANGED <<bucketVars, promiseVars>>
    /\ \/ Start(t)
       \/ Admit(t)
       \/ \E ctor \in CredAnswers, get \in CredAnswers :
              \/ ReadRetry(t, ctor, get)
              \/ WriteRetry(t, ctor, get)
              \/ DeleteRetry(t, ctor, get)
       \/ \E resp \in TermResponses :
              \/ WriteOnPeekResponse(t, resp)
              \/ DeleteOnPeekResponse(t, resp)
              \/ WriteOnResponse(t, resp)
              \/ DeleteOnResponse(t, resp)
       \/ \E resp \in TermResponses, size \in {0, 1}, cr \in {-1, 0} :
              ReadOnResponse(t, resp, size, cr)

TermNext ==
    \E t \in TaskIds :
        \/ /\ pc[t] = "idle"
           /\ UNCHANGED <<bucketVars, promiseVars>>
           /\ \E ie \in TermGens, ine \in LiveGens, valid \in BOOLEAN :
                  Read(t, ie, ine, FullRange, valid)
        \/ /\ pc[t] = "idle"
           /\ UNCHANGED <<bucketVars, promiseVars>>
           /\ \E ie \in TermGens, has_value \in BOOLEAN, valid \in BOOLEAN :
                  Write(t, ie, has_value, valid)
        \/ Abandon(t) /\ UNCHANGED <<bucketVars, promiseVars>>
        \/ TermStep(t)

SpecTerm == Init /\ [][TermNext]_vars /\ \A t \in TaskIds : WF_vars(TermStep(t))

\* C32: every Read, Write and Delete task whose result stays needed gives
\* its promise a result in the end, a value or an error, and a promise that
\* has a result never gets another.
C32_TerminalResult ==
    /\ \A t \in TaskIds :
           (kind[t] \in {"read", "write", "delete"} /\ pc[t] \notin {"idle", "refused"})
               ~> (result[t] # NoResult \/ ~needed[t])
    /\ [][\A t \in TaskIds :
            result[t] # NoResult => (result'[t] = result[t] /\ pc'[t] = pc[t])]_vars

\* a Write that published an Aborted error after its retries were used up,
\* with the caller still waiting
C32_Witness ==
    \E t \in TaskIds :
        /\ kind[t] = "write" /\ needed[t] /\ pc[t] = "done"
        /\ attempt_[t] >= 1
        /\ result[t].tag = "error" /\ result[t].status = "Aborted"


\* C33: when a page of a listing has been processed attempt_ is 0 again, so
\* the retries of each page are counted from 0: attempt_ is the number of
\* retriable failures of the requests for the current page alone and each
\* page can be retried max_retries times.
C33_PerPageRetryBudget ==
    /\ [](\A t \in TaskIds :
            kind[t] = "list" =>
                /\ pc[t] = "ready" => attempt_[t] = 0
                /\ pc[t] \in {"main", "keys"} => attempt_[t] = nmain[t] - 1
                /\ pc[t] = "backoff" => attempt_[t] = nmain[t]
                /\ pc[t] \in {"ready", "main", "keys", "backoff"} =>
                       attempt_[t] <= max_retries)
    /\ [][\A t \in TaskIds :
            (kind[t] = "list" /\ npages'[t] # npages[t]) => attempt_'[t] = 0]_vars

\* the second page of a listing is being retried although the first page
\* used up max_retries retries
C33_Witness ==
    \E t \in TaskIds :
        /\ kind[t] = "list" /\ pc[t] = "main"
        /\ npages[t] = 1 /\ nmain[t] = max_retries + 1 /\ attempt_[t] = max_retries
        /\ max_retries >= 1
        /\ s3_retries = 2 * max_retries


\* The response to a list request of task t is handled in this step and is
\* an HTTP error that is not retriable
ListHttpErrorHandled(t) ==
    /\ kind[t] = "list" /\ pc[t] = "main" /\ ~is_cancelled(t)
    /\ last_resp'[t].handler = "OnResponse"
    /\ last_resp'[t].ok
    /\ last_resp'[t].status # "Ok" /\ ~IsRetriable(last_resp'[t].status)

\* C34: a list response that is an HTTP error and not retriable (403, say)
\* ends the listing with set_error and set_stopping whatever its body holds:
\* no key of it is passed to set_value and no further request is issued.
C34_ListHttpError ==
    /\ [][\A t \in TaskIds :
            ListHttpErrorHandled(t) =>
                /\ pc'[t] = "done"
                /\ events'[t] = Finished(events[t], "error")]_vars
    /\ [](\A t \in TaskIds :
            (kind[t] = "list" /\ last_resp[t].handler = "OnResponse" /\ last_resp[t].ok
                 /\ last_resp[t].status # "Ok" /\ ~IsRetriable(last_resp[t].status)) =>
                pc[t] \notin {"keys", "ready", "main"})

\* the keys of the body of a 403 response are being delivered
C34_KeysOfErrorBody ==
    \E t \in TaskIds :
        /\ kind[t] = "list" /\ pc[t] = "keys"
        /\ last_resp[t].handler = "OnResponse" /\ last_resp[t].code = 403

\* a listing reported done to the receiver after its request was answered
\* 403 with the body of an empty last page
C34_DoneAfterError ==
    \E t \in TaskIds :
        /\ kind[t] = "list" /\ pc[t] = "done"
        /\ last_resp[t].handler = "OnResponse" /\ last_resp[t].code = 403
        /\ Len(events[t]) >= 2
        /\ events[t][Len(events[t]) - 1] = "done"


\* The credentials a request is signed with when GetCredentials returned got
SignedWith(got) == IF got = "creds" THEN "creds" ELSE "empty"

\* C35: the HEAD and the PUT or DELETE of every attempt of a Write or
\* Delete task are signed with what GetCredentials returned on that attempt;
\* on a retry where the provider reports NotFound they are anonymous, also
\* when an earlier attempt had credentials.
C35_CredentialsOfTheAttempt ==
    \A t \in TaskIds :
        (kind[t] \in {"write", "delete"} /\ pc[t] \in {"head", "main"}) =>
            req[t].creds = SignedWith(maybe_credentials[t])

\* The part of C35 that holds: the requests of the first attempt
C35_FirstAttempt ==
    \A t \in TaskIds :
        (kind[t] \in {"write", "delete"} /\ pc[t] \in {"head", "main"}
             /\ attempt_[t] = 0) =>
            req[t].creds = SignedWith(maybe_credentials[t])

\* the HEAD of a retry signed with the credentials of the first attempt
\* although the provider reported NotFound on the retry
C35_StaleCredentials ==
    \E t \in TaskIds :
        /\ kind[t] \in {"write", "delete"} /\ pc[t] = "head"
        /\ attempt_[t] = 1
        /\ maybe_credentials[t] = "nullopt"
        /\ req[t].creds = "creds"

====
